---- MODULE Spec2Model ----
(***************************************************************************)
(* Model of the order ingestion core of Order_AI_Agent:                    *)
(*   src/database.py      DatabaseManager (clients and commandes tables)   *)
(*   src/app.py           api_update_order, api_update_sage_fields         *)
(*   src/article_codes.py generate_article_code, parse_article_code        *)
(*                                                                         *)
(* Conventions.  A Python str is a sequence of one-character strings; a    *)
(* character outside ASCII is written as a name ("E_acute" is U+00C9,      *)
(* "e_acute" is U+00E9).  A value that may be None (a NULL column, a       *)
(* missing dict key) is NULL or Some(v).  The logs table is append-only    *)
(* and is read by none of the operations modelled here; it is left out.    *)
(***************************************************************************)
EXTENDS Integers, Sequences, FiniteSets, TLC

VARIABLES clients, commandes, last, prev, procs, codec, extraction

vars == <<clients, commandes, last, prev, procs, codec, extraction>>

(***************************************************************************)
(* Optional values and Python truthiness                                   *)
(***************************************************************************)
NULL == <<>>

Some(v) == <<v>>

IsNull(o) == o = <<>>

Val(o) == o[1]

\* bool(s) for s a str or None: None and '' are falsy
TruthyStr(o) == o # NULL /\ Val(o) # <<>>

\* bool(n) for n a number or None: None and 0 are falsy
TruthyNum(o) == o # NULL /\ Val(o) # 0

\* Python's  a or b  on optional strings
OrStr(a, b) == IF TruthyStr(a) THEN a ELSE b

(***************************************************************************)
(* Strings                                                                 *)
(***************************************************************************)
UpperLetters == <<"A","B","C","D","E","F","G","H","I","J","K","L","M",
                  "N","O","P","Q","R","S","T","U","V","W","X","Y","Z">>

LowerLetters == <<"a","b","c","d","e","f","g","h","i","j","k","l","m",
                  "n","o","p","q","r","s","t","u","v","w","x","y","z">>

IndexIn(c, seq) == IF \E i \in DOMAIN seq : seq[i] = c
                   THEN CHOOSE i \in DOMAIN seq : seq[i] = c
                   ELSE 0

\* SQLite's built-in LOWER(): folds the 26 ASCII letters only
SqlLowerChar(c) == IF IndexIn(c, UpperLetters) # 0
                   THEN LowerLetters[IndexIn(c, UpperLetters)]
                   ELSE c

SqlLower(s) == [i \in DOMAIN s |-> SqlLowerChar(s[i])]

\* Python's str.lower(): folds every cased character
PyLowerChar(c) == IF c = "E_acute" THEN "e_acute" ELSE SqlLowerChar(c)

PyLower(s) == [i \in DOMAIN s |-> PyLowerChar(s[i])]

StartsWith(s, p) == Len(s) >= Len(p) /\ SubSeq(s, 1, Len(p)) = p

\* Python's  p in s
Contains(s, p) == \E i \in 0..(Len(s) - Len(p)) : SubSeq(s, i + 1, i + Len(p)) = p

RECURSIVE LStrip(_)
LStrip(s) == IF s # <<>> /\ Head(s) = " " THEN LStrip(Tail(s)) ELSE s

RECURSIVE RStrip(_)
RStrip(s) == IF s # <<>> /\ s[Len(s)] = " " THEN RStrip(SubSeq(s, 1, Len(s) - 1)) ELSE s

\* str.strip()
Strip(s) == RStrip(LStrip(s))

\* str.replace(old, '') for a non-empty old
RECURSIVE RemoveAll(_, _)
RemoveAll(s, old) ==
    IF s = <<>> THEN <<>>
    ELSE IF StartsWith(s, old) THEN RemoveAll(SubSeq(s, Len(old) + 1, Len(s)), old)
    ELSE <<Head(s)>> \o RemoveAll(Tail(s), old)

ClientInconnu == <<"C","l","i","e","n","t"," ","I","n","c","o","n","n","u">>

ClientWhatsApp == <<"C","l","i","e","n","t"," ","W","h","a","t","s","A","p","p">>

WhatsAppPrefix == <<"w","h","a","t","s","a","p","p",":">>

(***************************************************************************)
(* clients table (database.py 72-82) and get_or_create_client (220-286)    *)
(***************************************************************************)
\* a row of clients: id is the AUTOINCREMENT key; rows are never deleted, so
\* the row with id i is clients[i]
ClientRow(id, nom, email, telephone) ==
    [id |-> id, nom |-> nom, email |-> email, telephone |-> telephone]

\* cursor.fetchone() of a SELECT without ORDER BY: the first row in rowid order
FirstWhere(rows, P(_)) ==
    IF \E i \in DOMAIN rows : P(rows[i])
    THEN CHOOSE i \in DOMAIN rows : P(rows[i]) /\ \A j \in 1..(i - 1) : ~P(rows[j])
    ELSE 0

\* the name left as given when it is blank and there is no contact
DefaultNomAsGiven(nom, email, telephone) ==
    IF ~TruthyStr(nom)
    THEN Val(OrStr(email, OrStr(telephone, Some(ClientInconnu))))
    ELSE Val(nom)

\* line 231-232: default name if None or empty
DefaultNom(nom, email, telephone) ==
    IF ~TruthyStr(nom) \/ Strip(Val(nom)) = <<>>
    THEN Val(OrStr(email, OrStr(telephone, Some(ClientInconnu))))
    ELSE Val(nom)

\* line 235
IsRealName(nom) ==
    nom # <<>> /\ ~StartsWith(nom, ClientWhatsApp) /\ ~StartsWith(nom, ClientInconnu)

\* line 239: SELECT * FROM clients WHERE LOWER(nom) = LOWER(?)
SelectClientByNom(cls, nom) ==
    LET P(r) == SqlLower(r.nom) = SqlLower(nom) IN FirstWhere(cls, P)

\* line 264: SELECT * FROM clients WHERE telephone = ?
SelectClientByTelephone(cls, telephone) ==
    LET P(r) == r.telephone = telephone IN FirstWhere(cls, P)

\* line 271: SELECT * FROM clients WHERE email = ?
SelectClientByEmail(cls, email) ==
    LET P(r) == r.email = email IN FirstWhere(cls, P)

\* the telephone given written over the one stored
ClientLookupOverwrite(cls, nom0, email, telephone) ==
    LET nom == DefaultNom(nom0, email, telephone)
        i == SelectClientByNom(cls, nom)
    IN IF IsRealName(nom) /\ i # 0
       THEN [found |-> i,
             cls |-> IF TruthyStr(telephone) THEN [cls EXCEPT ![i].telephone = telephone]
                     ELSE cls]
       ELSE [found |-> 0, cls |-> cls]

\* lines 237-247 and 262-274: the lookups made before any INSERT.  Yields the
\* id found (0 when none), the row returned (read before the UPDATE of line
\* 245) and the table after that UPDATE.
ClientLookup(cls, nom0, email, telephone) ==
    LET nom == DefaultNom(nom0, email, telephone) IN
    IF IsRealName(nom)
    THEN LET i == SelectClientByNom(cls, nom) IN
         IF i # 0
         THEN [found |-> i,
               cls |-> IF TruthyStr(telephone) /\ ~TruthyStr(cls[i].telephone)
                       THEN [cls EXCEPT ![i].telephone = telephone]
                       ELSE cls]
         ELSE [found |-> 0, cls |-> cls]
    ELSE LET t == IF TruthyStr(telephone) THEN SelectClientByTelephone(cls, telephone) ELSE 0
             e == IF TruthyStr(email) THEN SelectClientByEmail(cls, email) ELSE 0
         IN [found |-> IF t # 0 THEN t ELSE e, cls |-> cls]

\* lines 250-254 and 277-281: INSERT INTO clients (nom, email, telephone)
ClientInsert(cls, nom0, email, telephone) ==
    Append(cls, ClientRow(Len(cls) + 1, DefaultNom(nom0, email, telephone), email, telephone))

\* the whole of get_or_create_client run without interruption: the table
\* afterwards, the id returned, whether a row was inserted, and the dict
\* returned: dict(client) of the row as it was fetched (lines 247, 267, 274),
\* or the dict built from the arguments (lines 260, 286)
GetOrCreateClient(cls, nom0, email, telephone) ==
    LET l == ClientLookup(cls, nom0, email, telephone) IN
    IF l.found # 0
    THEN [cls |-> l.cls, id |-> l.found, inserted |-> FALSE, client |-> cls[l.found]]
    ELSE [cls |-> ClientInsert(cls, nom0, email, telephone),
          id |-> Len(cls) + 1, inserted |-> TRUE,
          client |-> ClientRow(Len(cls) + 1, DefaultNom(nom0, email, telephone),
                               email, telephone)]

(***************************************************************************)
(* commandes table (database.py 95-138) and create_order (331-444)         *)
(***************************************************************************)
MaxOrders == 2

MaxClients == 2

EnAttente == <<"e","n","_","a","t","t","e","n","t","e">>

\* a row of commandes, with the columns the modelled operations read or write;
\* statut takes its column default
OrderRow(id, d, client_id, quantite, quantite_livree, reste_a_livrer) ==
    [id |-> id,
     numero_commande |-> d.numero_commande,
     email_id |-> d.email_id,
     client_id |-> client_id,
     quantite |-> Some(quantite),
     quantite_livree |-> Some(quantite_livree),
     reste_a_livrer |-> Some(reste_a_livrer),
     statut |-> EnAttente,
     validated_at |-> NULL,
     validated_by |-> NULL]

\* line 340: SELECT id FROM commandes WHERE numero_commande = ?
SelectOrderByNumero(cmds, numero) ==
    LET P(r) == r.numero_commande = numero IN FirstWhere(cmds, P)

\* line 347: SELECT id FROM commandes WHERE email_id = ?
SelectOrderByEmailId(cmds, email_id) ==
    LET P(r) == r.email_id = email_id IN FirstWhere(cmds, P)

\* OrderLookup without the lookup by numero_commande
OrderLookupEmailOnly(cmds, d) ==
    IF TruthyStr(d.email_id) THEN SelectOrderByEmailId(cmds, d.email_id) ELSE 0

\* lines 336-351: the check for an existing order; 0 when none is found
OrderLookup(cmds, d) ==
    LET n == IF TruthyStr(d.numero_commande)
             THEN SelectOrderByNumero(cmds, d.numero_commande) ELSE 0
        e == IF TruthyStr(d.email_id)
             THEN SelectOrderByEmailId(cmds, d.email_id) ELSE 0
    IN IF n # 0 THEN n ELSE e

\* lines 358-360
ClientPhone(d) ==
    IF TruthyStr(d.whatsapp_from)
    THEN Some(RemoveAll(Val(d.whatsapp_from), WhatsAppPrefix))
    ELSE NULL

\* line 355
ClientEmail(d) == OrStr(d.email_from, d.whatsapp_from)

\* lines 354 and 363-367
ClientName(d) ==
    IF ~TruthyStr(d.entreprise_cliente) \/ Strip(Val(d.entreprise_cliente)) = <<>>
    THEN IF TruthyStr(ClientPhone(d))
         THEN Some(ClientWhatsApp \o <<" ">> \o Val(ClientPhone(d)))
         ELSE OrStr(ClientEmail(d), Some(ClientInconnu))
    ELSE d.entreprise_cliente

\* python's  x or 0  on an optional number
OrZero(o) == IF TruthyNum(o) THEN Val(o) ELSE 0

\* lines 377-379
ResteALivrer(d) == OrZero(d.quantite) - OrZero(d.quantite_livree)

\* the commandes table without its UNIQUE constraint
UniqueConflictNever(cmds, d) == FALSE

\* numero_commande TEXT UNIQUE (line 98): an INSERT of a non-NULL number that a
\* row already carries raises sqlite3.IntegrityError; NULLs never conflict
UniqueConflict(cmds, d) ==
    d.numero_commande # NULL
    /\ \E i \in DOMAIN cmds : cmds[i].numero_commande = d.numero_commande

\* lines 385-431: INSERT INTO commandes ... and commit
OrderInsert(cmds, d, client_id) ==
    Append(cmds, OrderRow(Len(cmds) + 1, d, client_id,
                          OrZero(d.quantite), OrZero(d.quantite_livree), ResteALivrer(d)))

\* the client resolved before the check for an existing order
CreateOrderClientFirst(cls, cmds, d) ==
    LET found == OrderLookup(cmds, d)
        g == GetOrCreateClient(cls, ClientName(d), ClientEmail(d), ClientPhone(d))
    IN
    IF found # 0
    THEN [cls |-> g.cls, cmds |-> cmds, returned |-> <<found>>,
          inserted |-> FALSE, outcome |-> "ok"]
    ELSE IF UniqueConflict(cmds, d)
         THEN [cls |-> g.cls, cmds |-> cmds, returned |-> <<>>,
               inserted |-> FALSE, outcome |-> "IntegrityError"]
         ELSE [cls |-> g.cls, cmds |-> OrderInsert(cmds, d, g.id),
               returned |-> <<Len(cmds) + 1>>, inserted |-> TRUE, outcome |-> "ok"]

\* the whole of create_order run without interruption.  returned is what the
\* caller receives (the id alone: lines 344, 351, 444), empty when the INSERT
\* raised; inserted tells whether a commandes row was added.
CreateOrder(cls, cmds, d) ==
    LET found == OrderLookup(cmds, d) IN
    IF found # 0
    THEN [cls |-> cls, cmds |-> cmds, returned |-> <<found>>,
          inserted |-> FALSE, outcome |-> "ok"]
    ELSE LET g == GetOrCreateClient(cls, ClientName(d), ClientEmail(d), ClientPhone(d)) IN
         IF UniqueConflict(cmds, d)
         THEN [cls |-> g.cls, cmds |-> cmds, returned |-> <<>>,
               inserted |-> FALSE, outcome |-> "IntegrityError"]
         ELSE [cls |-> g.cls, cmds |-> OrderInsert(cmds, d, g.id),
               returned |-> <<Len(cmds) + 1>>, inserted |-> TRUE, outcome |-> "ok"]

(***************************************************************************)
(* The record of a call: what it was given and what came back              *)
(***************************************************************************)
\* last is the most recent call and prev the one before it; the update handlers
\* record themselves in last and clear prev.  order_id and keys are the target
\* and the field names of an update call.  nom_given is the name passed to
\* get_or_create_client and nom the name it works with (line 232); client is
\* the dict it returns.
NoCall == [op |-> "none", numero_commande |-> NULL, email_id |-> NULL, nom |-> NULL,
           nom_given |-> NULL, email |-> NULL, telephone |-> NULL, client |-> NULL,
           order_id |-> 0, keys |-> {},
           returned |-> <<>>, inserted |-> FALSE, outcome |-> "none"]

OrderCall(d, r) ==
    [NoCall EXCEPT !.op = "create_order", !.numero_commande = d.numero_commande,
                   !.email_id = d.email_id, !.returned = r.returned,
                   !.inserted = r.inserted, !.outcome = r.outcome]

ClientCall(nom, r) ==
    [NoCall EXCEPT !.op = "get_or_create_client", !.nom = nom,
                   !.returned = <<r.id>>, !.inserted = r.inserted, !.outcome = "ok"]

\* the same call with its arguments and the dict it returned
ClientCallArgs(nom_given, nom, email, telephone, r) ==
    [ClientCall(nom, r) EXCEPT !.nom_given = nom_given, !.email = email,
                               !.telephone = telephone, !.client = Some(r.client)]

UpdateCall(op, order_id, keys, outcome) ==
    [NoCall EXCEPT !.op = op, !.order_id = order_id, !.keys = keys, !.outcome = outcome]

(***************************************************************************)
(* Inputs                                                                  *)
(***************************************************************************)
N1 == <<"N","1">>

N2 == <<"N","2">>

E1 == <<"m","1">>

NomAb == <<"A","b">>

Phone1 == <<"+","1">>

Wa1 == WhatsAppPrefix \o Phone1

Draft(numero, email_id, entreprise, email_from, whatsapp_from, quantite, livree) ==
    [numero_commande |-> numero, email_id |-> email_id,
     entreprise_cliente |-> entreprise, email_from |-> email_from,
     whatsapp_from |-> whatsapp_from, quantite |-> quantite, quantite_livree |-> livree]

\* drafts of the ingest specification: every combination of the two keys
\* (number absent, empty or one of two values; message id absent or present),
\* with and without a customer name
IngestDrafts ==
    { Draft(n, e, c, NULL, NULL, NULL, NULL) :
        n \in {NULL, Some(<<>>), Some(N1), Some(N2)},
        e \in {NULL, Some(E1)},
        c \in {NULL, Some(NomAb)} }

(***************************************************************************)
(* Spec: create_order calls run one after the other                        *)
(***************************************************************************)
NoProcs == <<>>

NoCodec == <<>>

\* the extractor has been given nothing
NoExtraction == <<>>

Init ==
    /\ clients = <<>>
    /\ commandes = <<>>
    /\ last = NoCall
    /\ prev = NoCall
    /\ procs = NoProcs
    /\ codec = NoCodec
    /\ extraction = NoExtraction

create_order(d) ==
    LET r == CreateOrder(clients, commandes, d) IN
    /\ Len(r.cmds) <= MaxOrders
    /\ Len(r.cls) <= MaxClients
    /\ clients' = r.cls
    /\ commandes' = r.cmds
    /\ prev' = last
    /\ last' = OrderCall(d, r)
    /\ UNCHANGED <<procs, codec, extraction>>

Next == \E d \in IngestDrafts : create_order(d)

Spec == Init /\ [][Next]_vars

(***************************************************************************)
(* C1, C8: create_order calls run one after the other (Spec)               *)
(***************************************************************************)
\* the idempotency key a call carries: the business number when it has one,
\* else the message id, else none
KeyKind(c) ==
    IF TruthyStr(c.numero_commande) THEN "numero"
    ELSE IF TruthyStr(c.email_id) THEN "email" ELSE "none"

SameKey(a, b) ==
    /\ KeyKind(a) = KeyKind(b)
    /\ KeyKind(a) = "numero" => a.numero_commande = b.numero_commande
    /\ KeyKind(a) = "email" => a.email_id = b.email_id
    /\ KeyKind(a) # "none"

RowsWithKey(c) ==
    IF KeyKind(c) = "numero"
    THEN {i \in DOMAIN commandes : commandes[i].numero_commande = c.numero_commande}
    ELSE {i \in DOMAIN commandes : commandes[i].email_id = c.email_id}

TwoIngestsSameKey ==
    /\ prev.op = "create_order"
    /\ last.op = "create_order"
    /\ SameKey(prev, last)

\* C1: two drafts ingested one after the other with the same business number,
\* or with no business number and the same message id: the second call returns
\* the order id the first returned, and exactly one order carries that key.
C1_SequentialIdempotency ==
    TwoIngestsSameKey =>
        /\ prev.outcome = "ok"
        /\ last.outcome = "ok"
        /\ last.returned = prev.returned
        /\ Cardinality(RowsWithKey(last)) = 1

\* C1 (amended): when the first of the two calls created the order, the second
\* call succeeds, returns the same id, adds no row, and exactly one order
\* carries the key.
C1_IdempotentAfterCreate ==
    (TwoIngestsSameKey /\ prev.inserted) =>
        /\ last.outcome = "ok"
        /\ last.returned = prev.returned
        /\ ~last.inserted
        /\ Cardinality(RowsWithKey(last)) = 1

\* a second ingest of a business number, arriving with another message id,
\* got the id the first ingest created
C1_Witness ==
    /\ TwoIngestsSameKey
    /\ KeyKind(last) = "numero"
    /\ prev.inserted
    /\ last.email_id # prev.email_id
    /\ last.returned = prev.returned

\* C8: a successful ingest returns the order id together with a boolean
\* created, true exactly when the call inserted a row.
C8_CreatedFlagReturned ==
    (last.op = "create_order" /\ last.outcome = "ok") =>
        /\ Len(last.returned) = 2
        /\ last.returned[2] = last.inserted

(***************************************************************************)
(* SpecClient: get_or_create_client calls run one after the other          *)
(***************************************************************************)
NomABupper == <<"A","B">>

NomAccentUpper == <<"E_acute","b">>

NomAccentLower == <<"e_acute","b">>

Mail1 == <<"a","@","b">>

ClientNames ==
    {NULL, Some(<<" ">>), Some(NomAb), Some(NomABupper), Some(NomAccentUpper),
     Some(NomAccentLower), Some(ClientInconnu), Some(ClientWhatsApp \o <<" ">> \o Phone1)}

ClientEmails == {NULL, Some(Mail1)}

ClientPhones == {NULL, Some(Phone1)}

get_or_create_client(nom, email, telephone) ==
    LET r == GetOrCreateClient(clients, nom, email, telephone) IN
    /\ Len(r.cls) <= MaxClients
    /\ clients' = r.cls
    /\ prev' = last
    /\ last' = ClientCall(Some(DefaultNom(nom, email, telephone)), r)
    /\ UNCHANGED <<commandes, procs, codec, extraction>>

NextClient ==
    \E nom \in ClientNames, email \in ClientEmails, telephone \in ClientPhones :
        get_or_create_client(nom, email, telephone)

SpecClient == Init /\ [][NextClient]_vars

\* equal ignoring case, as str.lower() compares
SameNameIgnoringCase(a, b) == PyLower(a) = PyLower(b)

\* C5: after any sequence of get_or_create_client calls no two client rows have
\* names equal ignoring case, and a second call with the same genuine name (in
\* any letter case) returns the first call's id and adds no row.
C5_OneIdentityPerName ==
    /\ \A i, j \in DOMAIN clients :
          i # j => ~SameNameIgnoringCase(clients[i].nom, clients[j].nom)
    /\ ( /\ prev.op = "get_or_create_client"
         /\ last.op = "get_or_create_client"
         /\ IsRealName(Val(last.nom))
         /\ SameNameIgnoringCase(Val(prev.nom), Val(last.nom)) )
       => (last.returned = prev.returned /\ ~last.inserted)

(***************************************************************************)
(* update_order (database.py 506-519), api_update_order (app.py 367-383)   *)
(* and api_update_sage_fields (app.py 603-641)                             *)
(***************************************************************************)
\* The JSON body of an update: keys is the set of field names it carries, and
\* each field named in keys has the value given (NULL for a JSON null).
Updates(keys, quantite, quantite_livree, reste_a_livrer) ==
    [keys |-> keys,
     quantite |-> IF "quantite" \in keys THEN quantite ELSE NULL,
     quantite_livree |-> IF "quantite_livree" \in keys THEN quantite_livree ELSE NULL,
     reste_a_livrer |-> IF "reste_a_livrer" \in keys THEN reste_a_livrer ELSE NULL]

\* database.py 510-518: UPDATE commandes SET k = ? for every key, WHERE id = ?;
\* no row is touched when the id is unknown
UpdateOrder(cmds, order_id, u) ==
    [i \in DOMAIN cmds |->
        IF i # order_id THEN cmds[i]
        ELSE [cmds[i] EXCEPT
                !.quantite = IF "quantite" \in u.keys THEN u.quantite ELSE @,
                !.quantite_livree =
                    IF "quantite_livree" \in u.keys THEN u.quantite_livree ELSE @,
                !.reste_a_livrer =
                    IF "reste_a_livrer" \in u.keys THEN u.reste_a_livrer ELSE @]]

\* dict.get(k, default): the value under k when the key is there (None
\* included), else the default
GetOr(u, k, default) == IF k \in u.keys THEN u[k] ELSE default

\* app.py 376-380: reste_a_livrer recomputed when a quantity field is updated
ApiUpdateOrderBody(order, u) ==
    IF "quantite" \in u.keys \/ "quantite_livree" \in u.keys
    THEN [u EXCEPT
            !.keys = @ \cup {"reste_a_livrer"},
            !.reste_a_livrer =
                Some(OrZero(GetOr(u, "quantite", order.quantite))
                     - OrZero(GetOr(u, "quantite_livree", order.quantite_livree)))]
    ELSE u

\* app.py 612-619: only the SAGE fields are kept (quantite is not one of them)
SageAllowed == {"quantite_livree", "reste_a_livrer"}

SageFilter(u) ==
    [u EXCEPT !.keys = @ \cap SageAllowed, !.quantite = NULL]

\* ApiUpdateSageBody without the recomputation
ApiUpdateSageBodyAsGiven(order, u) == u

\* app.py 625-630
ApiUpdateSageBody(order, u) ==
    IF "quantite_livree" \in u.keys
    THEN [u EXCEPT
            !.keys = @ \cup {"reste_a_livrer"},
            !.reste_a_livrer =
                Some(OrZero(order.quantite) - OrZero(u.quantite_livree))]
    ELSE u

(***************************************************************************)
(* SpecQty: ingest and order-field updates run one after the other         *)
(***************************************************************************)
\* SpecQty follows one stored order through its updates: UPDATE ... WHERE id = ?
\* touches a single row, and no handler reads another order's quantities.
MaxQty == 2

QtyVals == {NULL} \cup {Some(n) : n \in 0..MaxQty}

QtyDrafts == { Draft(NULL, NULL, NULL, NULL, NULL, q, l) : q \in QtyVals, l \in QtyVals }

QtyKeys == {"quantite", "quantite_livree", "reste_a_livrer"}

QtyUpdates ==
    { Updates(k, q, l, r) : k \in SUBSET QtyKeys, q \in QtyVals, l \in QtyVals, r \in QtyVals }

\* the id of the stored order and an id no order has
OrderIds == {1, 2}

create_order_qty(d) ==
    /\ commandes = <<>>
    /\ create_order(d)

\* A request either ends in an error (HTTP 500, nothing written): order.get on
\* the None that get_order returns for an unknown id (app.py 378), or the
\* malformed UPDATE of an empty field set (database.py 513); or it updates.
api_update_order(order_id, u) ==
    LET known == order_id \in DOMAIN commandes
        qty == "quantite" \in u.keys \/ "quantite_livree" \in u.keys
        failed == (qty /\ ~known) \/ u.keys = {}
    IN
    /\ commandes' = IF failed THEN commandes
                    ELSE UpdateOrder(commandes, order_id,
                                     IF qty THEN ApiUpdateOrderBody(commandes[order_id], u)
                                     ELSE u)
    /\ prev' = NoCall
    /\ last' = UpdateCall("api_update_order", order_id, u.keys,
                          IF failed THEN "error" ELSE "ok")
    /\ UNCHANGED <<clients, procs, codec, extraction>>

\* app.py 608-609 and 621-622: an empty body or one with no SAGE field is
\* answered 400; get_order returning None skips the recomputation (line 627)
api_update_sage_fields(order_id, u) ==
    LET known == order_id \in DOMAIN commandes
        sage == SageFilter(u)
        failed == sage.keys = {}
    IN
    /\ commandes' = IF failed THEN commandes
                    ELSE UpdateOrder(commandes, order_id,
                                     IF known THEN ApiUpdateSageBody(commandes[order_id], sage)
                                     ELSE sage)
    /\ prev' = NoCall
    /\ last' = UpdateCall("api_update_sage_fields", order_id, u.keys,
                          IF failed THEN "error" ELSE "ok")
    /\ UNCHANGED <<clients, procs, codec, extraction>>

NextQty ==
    \/ \E d \in QtyDrafts : create_order_qty(d)
    \/ \E id \in OrderIds, u \in QtyUpdates : api_update_order(id, u)
    \/ \E id \in OrderIds, u \in QtyUpdates : api_update_sage_fields(id, u)

SpecQty == Init /\ [][NextQty]_vars

\* reste_a_livrer = quantite - quantite_livree, a missing quantity counting as 0
ResteConsistent(row) ==
    row.reste_a_livrer = Some(OrZero(row.quantite) - OrZero(row.quantite_livree))

\* C7: in every state reachable by ingest and order-field updates, with any set
\* of updated fields, every stored order has
\* reste_a_livrer = quantite - quantite_livree.
C7_ResteInvariant == \A i \in DOMAIN commandes : ResteConsistent(commandes[i])

LastOrderKnown == last.order_id \in DOMAIN commandes

\* C7 (amended): the order just created, and the order just updated by an
\* api_update_order call carrying quantite or quantite_livree or by an
\* api_update_sage_fields call carrying quantite_livree, has
\* reste_a_livrer = quantite - quantite_livree.
C7_ResteAfterQuantityUpdate ==
    /\ (last.op = "create_order" /\ last.inserted)
          => ResteConsistent(commandes[last.returned[1]])
    /\ ( /\ last.op = "api_update_order"
         /\ last.outcome = "ok"
         /\ LastOrderKnown
         /\ last.keys \cap {"quantite", "quantite_livree"} # {} )
          => ResteConsistent(commandes[last.order_id])
    /\ ( /\ last.op = "api_update_sage_fields"
         /\ last.outcome = "ok"
         /\ LastOrderKnown
         /\ "quantite_livree" \in last.keys )
          => ResteConsistent(commandes[last.order_id])

\* a partial delivery recorded through the SAGE endpoint, sent together with a
\* reste_a_livrer of its own
C7_Witness ==
    /\ last.op = "api_update_sage_fields"
    /\ last.outcome = "ok"
    /\ LastOrderKnown
    /\ {"quantite_livree", "reste_a_livrer"} \subseteq last.keys
    /\ commandes[last.order_id].quantite = Some(2)
    /\ commandes[last.order_id].quantite_livree = Some(1)

(***************************************************************************)
(* SpecRace: two callers run create_order and get_or_create_client at the  *)
(* same time (the webhook's request threads, the mail batch).  Each SQL    *)
(* statement, with the commit that follows a write, is one step; a caller  *)
(* keeps what it has read in its own variables between steps.              *)
(***************************************************************************)
Workers == {"w1", "w2"}

MaxCalls == 1

NoDraft == Draft(NULL, NULL, NULL, NULL, NULL, NULL, NULL)

\* a caller: where it stands, its arguments, what it read, and the result of
\* its latest finished call
IdleWorker ==
    [pc |-> "idle", op |-> "none", d |-> NoDraft,
     nom |-> NULL, email |-> NULL, telephone |-> NULL,
     client_id |-> 0, calls |-> 0, returned |-> <<>>, outcome |-> "none"]

InitRace ==
    /\ clients = <<>>
    /\ commandes = <<>>
    /\ last = NoCall
    /\ prev = NoCall
    /\ procs = [w \in Workers |-> IdleWorker]
    /\ codec = NoCodec
    /\ extraction = NoExtraction

RaceDrafts ==
    { Draft(n, e, Some(NomAb), NULL, NULL, NULL, NULL) :
        n \in {NULL, Some(N1)}, e \in {NULL, Some(E1)} }

RaceNames == {Some(NomAb), Some(ClientInconnu)}

\* database.py 237 and 262-270: the first statement of get_or_create_client
ClientEntry(nom0, email, telephone) ==
    IF IsRealName(DefaultNom(nom0, email, telephone)) THEN "select_nom"
    ELSE IF TruthyStr(telephone) THEN "select_telephone"
    ELSE IF TruthyStr(email) THEN "select_client_email"
    ELSE "insert_client"

\* database.py 339 and 346: the first statement of create_order
OrderEntry(d) ==
    IF TruthyStr(d.numero_commande) THEN "select_numero"
    ELSE IF TruthyStr(d.email_id) THEN "select_email"
    ELSE ClientEntry(ClientName(d), ClientEmail(d), ClientPhone(d))

Finish(p, returned, outcome) ==
    [p EXCEPT !.pc = "idle", !.calls = @ + 1, !.returned = returned, !.outcome = outcome]

\* get_or_create_client returns client id i: to its caller, or into
\* create_order's INSERT (database.py 369)
ClientDone(p, i) ==
    IF p.op = "create_order"
    THEN [p EXCEPT !.pc = "insert_order", !.client_id = i]
    ELSE Finish([p EXCEPT !.client_id = i], <<i>>, "ok")

begin_create_order(w, d) ==
    /\ procs[w].pc = "idle"
    /\ procs[w].calls < MaxCalls
    /\ procs' = [procs EXCEPT ![w] =
                    [@ EXCEPT !.pc = OrderEntry(d), !.op = "create_order", !.d = d,
                              !.nom = ClientName(d), !.email = ClientEmail(d),
                              !.telephone = ClientPhone(d), !.client_id = 0,
                              !.returned = <<>>, !.outcome = "none"]]
    /\ UNCHANGED <<clients, commandes, last, prev, codec, extraction>>

begin_get_or_create_client(w, nom, email, telephone) ==
    /\ procs[w].pc = "idle"
    /\ procs[w].calls < MaxCalls
    /\ procs' = [procs EXCEPT ![w] =
                    [@ EXCEPT !.pc = ClientEntry(nom, email, telephone),
                              !.op = "get_or_create_client", !.d = NoDraft,
                              !.nom = nom, !.email = email, !.telephone = telephone,
                              !.client_id = 0, !.returned = <<>>, !.outcome = "none"]]
    /\ UNCHANGED <<clients, commandes, last, prev, codec, extraction>>

\* database.py 340-344
select_numero(w) ==
    LET p == procs[w]
        i == SelectOrderByNumero(commandes, p.d.numero_commande)
    IN
    /\ p.pc = "select_numero"
    /\ procs' = [procs EXCEPT ![w] =
                    IF i # 0 THEN Finish(p, <<i>>, "ok")
                    ELSE [p EXCEPT !.pc =
                            IF TruthyStr(p.d.email_id) THEN "select_email"
                            ELSE ClientEntry(p.nom, p.email, p.telephone)]]
    /\ UNCHANGED <<clients, commandes, last, prev, codec, extraction>>

\* database.py 347-351
select_email(w) ==
    LET p == procs[w]
        i == SelectOrderByEmailId(commandes, p.d.email_id)
    IN
    /\ p.pc = "select_email"
    /\ procs' = [procs EXCEPT ![w] =
                    IF i # 0 THEN Finish(p, <<i>>, "ok")
                    ELSE [p EXCEPT !.pc = ClientEntry(p.nom, p.email, p.telephone)]]
    /\ UNCHANGED <<clients, commandes, last, prev, codec, extraction>>

\* database.py 239-249
select_nom(w) ==
    LET p == procs[w]
        i == SelectClientByNom(clients, DefaultNom(p.nom, p.email, p.telephone))
    IN
    /\ p.pc = "select_nom"
    /\ procs' = [procs EXCEPT ![w] =
                    IF i = 0 THEN [p EXCEPT !.pc = "insert_client"]
                    ELSE IF TruthyStr(p.telephone) /\ ~TruthyStr(clients[i].telephone)
                    THEN [p EXCEPT !.pc = "update_telephone", !.client_id = i]
                    ELSE ClientDone(p, i)]
    /\ UNCHANGED <<clients, commandes, last, prev, codec, extraction>>

\* database.py 245-247
update_telephone(w) ==
    LET p == procs[w] IN
    /\ p.pc = "update_telephone"
    /\ clients' = [clients EXCEPT ![p.client_id].telephone = p.telephone]
    /\ procs' = [procs EXCEPT ![w] = ClientDone(p, p.client_id)]
    /\ UNCHANGED <<commandes, last, prev, codec, extraction>>

\* database.py 264-267
select_telephone(w) ==
    LET p == procs[w]
        i == SelectClientByTelephone(clients, p.telephone)
    IN
    /\ p.pc = "select_telephone"
    /\ procs' = [procs EXCEPT ![w] =
                    IF i # 0 THEN ClientDone(p, i)
                    ELSE [p EXCEPT !.pc = IF TruthyStr(p.email) THEN "select_client_email"
                                          ELSE "insert_client"]]
    /\ UNCHANGED <<clients, commandes, last, prev, codec, extraction>>

\* database.py 271-274
select_client_email(w) ==
    LET p == procs[w]
        i == SelectClientByEmail(clients, p.email)
    IN
    /\ p.pc = "select_client_email"
    /\ procs' = [procs EXCEPT ![w] =
                    IF i # 0 THEN ClientDone(p, i)
                    ELSE [p EXCEPT !.pc = "insert_client"]]
    /\ UNCHANGED <<clients, commandes, last, prev, codec, extraction>>

\* database.py 250-260 and 277-286
insert_client(w) ==
    LET p == procs[w] IN
    /\ p.pc = "insert_client"
    /\ clients' = ClientInsert(clients, p.nom, p.email, p.telephone)
    /\ procs' = [procs EXCEPT ![w] = ClientDone(p, Len(clients) + 1)]
    /\ UNCHANGED <<commandes, last, prev, codec, extraction>>

\* database.py 385-444: the INSERT either raises sqlite3.IntegrityError, which
\* create_order does not catch, or adds the row
insert_order(w) ==
    LET p == procs[w] IN
    /\ p.pc = "insert_order"
    /\ IF UniqueConflict(commandes, p.d)
       THEN /\ procs' = [procs EXCEPT ![w] = Finish(p, <<>>, "IntegrityError")]
            /\ UNCHANGED commandes
       ELSE /\ commandes' = OrderInsert(commandes, p.d, p.client_id)
            /\ procs' = [procs EXCEPT ![w] = Finish(p, <<Len(commandes) + 1>>, "ok")]
    /\ UNCHANGED <<clients, last, prev, codec, extraction>>

NextRace ==
    \E w \in Workers :
        \/ \E d \in RaceDrafts : begin_create_order(w, d)
        \/ \E nom \in RaceNames, email \in ClientEmails, telephone \in ClientPhones :
               begin_get_or_create_client(w, nom, email, telephone)
        \/ select_numero(w)
        \/ select_email(w)
        \/ select_nom(w)
        \/ update_telephone(w)
        \/ select_telephone(w)
        \/ select_client_email(w)
        \/ insert_client(w)
        \/ insert_order(w)

SpecRace == InitRace /\ [][NextRace]_vars

(***************************************************************************)
(* SpecRace claims                                                         *)
(***************************************************************************)
Finished(w) == procs[w].pc = "idle" /\ procs[w].calls > 0

FinishedOrder(w) == Finished(w) /\ procs[w].op = "create_order"

FinishedClient(w) == Finished(w) /\ procs[w].op = "get_or_create_client"

RowsWithEmailId(e) == {i \in DOMAIN commandes : commandes[i].email_id = e}

RowsWithNumero(n) == {i \in DOMAIN commandes : commandes[i].numero_commande = n}

\* two finished create_order calls that carried the same email_id and no number
SameEmailNoNumero(v, w) ==
    /\ v # w
    /\ FinishedOrder(v) /\ FinishedOrder(w)
    /\ ~TruthyStr(procs[v].d.numero_commande)
    /\ ~TruthyStr(procs[w].d.numero_commande)
    /\ TruthyStr(procs[v].d.email_id)
    /\ procs[v].d.email_id = procs[w].d.email_id

\* C2: once two concurrent create_order calls with the same email_id and no
\* business number have both finished, exactly one row carries that email_id.
C2_OneRowPerEmailId ==
    \A v, w \in Workers :
        SameEmailNoNumero(v, w) => Cardinality(RowsWithEmailId(procs[v].d.email_id)) = 1

\* C3: in every reachable state at most one row exists per non-null
\* numero_commande, whatever the interleaving of the create_order calls.
C3_UniqueNumero ==
    \A i, j \in DOMAIN commandes :
        (i # j /\ commandes[i].numero_commande # NULL)
            => commandes[i].numero_commande # commandes[j].numero_commande

\* two calls with the same number both passed the lookup; one inserted, the
\* other's INSERT was refused
C3_Witness ==
    \E v, w \in Workers :
        /\ FinishedOrder(v) /\ FinishedOrder(w)
        /\ procs[v].d.numero_commande = procs[w].d.numero_commande
        /\ procs[v].outcome = "ok" /\ procs[w].outcome = "IntegrityError"
        /\ Cardinality(RowsWithNumero(procs[v].d.numero_commande)) = 1

\* C4: a create_order call whose INSERT meets the uniqueness conflict finishes
\* successfully with the id of the row the other call inserted; no call ends
\* in an error.
C4_ConflictIsSuccess ==
    \A w \in Workers :
        FinishedOrder(w) =>
            /\ procs[w].outcome = "ok"
            /\ Len(procs[w].returned) = 1
            /\ procs[w].returned[1] \in DOMAIN commandes

\* two finished get_or_create_client calls for the same genuine name
SameGenuineName(v, w) ==
    /\ v # w
    /\ FinishedClient(v) /\ FinishedClient(w)
    /\ IsRealName(DefaultNom(procs[v].nom, procs[v].email, procs[v].telephone))
    /\ SqlLower(DefaultNom(procs[v].nom, procs[v].email, procs[v].telephone))
         = SqlLower(DefaultNom(procs[w].nom, procs[w].email, procs[w].telephone))

\* C6: after two concurrent get_or_create_client calls for the same genuine
\* name, exactly one client row has that name and both calls returned its id.
C6_OneRowPerConcurrentName ==
    \A v, w \in Workers :
        SameGenuineName(v, w) =>
            /\ Cardinality({i \in DOMAIN clients :
                   SqlLower(clients[i].nom)
                     = SqlLower(DefaultNom(procs[v].nom, procs[v].email, procs[v].telephone))}) = 1
            /\ procs[v].returned = procs[w].returned

(***************************************************************************)
(* article_codes.py: generate_article_code (46-86), parse_article_code     *)
(* (89-141)                                                                *)
(***************************************************************************)
\* the keys of PAPER_TYPES and SUPPLIERS, and the names parse_article_code gives
\* (lines 114 and 117)
KRAFTBLANCHI == <<"k","r","a","f","t"," ","b","l","a","n","c","h","i">>

KRAFTECRU == <<"k","r","a","f","t"," ","e","c","r","u">>

KRAFTNATUREL == <<"k","r","a","f","t"," ","n","a","t","u","r","e","l">>

KRAFT == <<"k","r","a","f","t">>

BLANCHI == <<"b","l","a","n","c","h","i">>

ECRU == <<"e","c","r","u">>

MONDI == <<"m","o","n","d","i">>

NORDIC == <<"n","o","r","d","i","c">>

BILLERUD == <<"b","i","l","l","e","r","u","d">>

SMURFIT == <<"s","m","u","r","f","i","t">>

DEFAULT == <<"d","e","f","a","u","l","t">>

KraftBlanchiName == <<"K","r","a","f","t"," ","B","l","a","n","c","h","i">>

KraftEcruName == <<"K","r","a","f","t"," ","E_acute","c","r","u">>

KB == <<"K","B">>

KE == <<"K","E">>

\* PAPER_TYPES (lines 13-20), in the dict's iteration order
PAPER_TYPES ==
    << <<KRAFTBLANCHI, KB>>, <<KRAFTECRU, KE>>, <<KRAFTNATUREL, KE>>,
       <<KRAFT, KE>>, <<BLANCHI, KB>>, <<ECRU, KE>> >>

\* SUPPLIERS (lines 23-29), in the dict's iteration order
SUPPLIERS ==
    << <<MONDI, <<"M","O","N">> >>, <<NORDIC, <<"N","O","R">> >>,
       <<BILLERUD, <<"B","I","L">> >>, <<SMURFIT, <<"S","M","U">> >>,
       <<DEFAULT, <<"S","T","D">> >> >>

\* STANDARD_GRAMMAGES (line 32) and STANDARD_LAIZES (line 35)
STANDARD_GRAMMAGES == {40, 50, 60, 70, 80, 90, 100, 120, 140}

STANDARD_LAIZES == {15, 18, 20, 22, 25, 28, 30, 32, 35, 40, 45, 50}

Digits == <<"0","1","2","3","4","5","6","7","8","9">>

IsDigit(c) == IndexIn(c, Digits) # 0

\* str(n) of a natural number
RECURSIVE StrNat(_)
StrNat(n) == IF n < 10 THEN <<Digits[n + 1]>>
             ELSE StrNat(n \div 10) \o <<Digits[(n % 10) + 1]>>

\* int(s) of a run of digits
RECURSIVE IntOf(_)
IntOf(s) == IF s = <<>> THEN 0
            ELSE 10 * IntOf(SubSeq(s, 1, Len(s) - 1)) + (IndexIn(s[Len(s)], Digits) - 1)

\* the longest run of digits s starts with: what re.match(r"(\d+)", s) captures
RECURSIVE DigitRun(_)
DigitRun(s) == IF s # <<>> /\ IsDigit(Head(s)) THEN <<Head(s)>> \o DigitRun(Tail(s))
               ELSE <<>>

Drop(s, n) == SubSeq(s, n + 1, Len(s))

\* for key, code in table.items(): if key in text: ... break
RECURSIVE FirstKeyIn(_, _, _)
FirstKeyIn(table, text, default) ==
    IF table = <<>> THEN default
    ELSE IF Contains(text, Head(table)[1]) THEN Head(table)[2]
    ELSE FirstKeyIn(Tail(table), text, default)

\* lines 60-66
TypeCode(paper_type) ==
    IF TruthyStr(paper_type) THEN FirstKeyIn(PAPER_TYPES, PyLower(Val(paper_type)), KE)
    ELSE KE

\* lines 75-81
SupplierCode(supplier) ==
    IF TruthyStr(supplier) THEN FirstKeyIn(SUPPLIERS, PyLower(Val(supplier)), <<>>)
    ELSE <<>>

\* lines 59-86
generate_article_code(paper_type, grammage, laize, supplier) ==
    TypeCode(paper_type)
    \o (IF TruthyNum(grammage) THEN StrNat(Val(grammage)) ELSE <<"8","0">>)
    \o (IF TruthyNum(laize) THEN <<"L">> \o StrNat(Val(laize)) ELSE <<>>)
    \o SupplierCode(supplier)

PyUpperChar(c) ==
    IF c = "e_acute" THEN "E_acute"
    ELSE IF IndexIn(c, LowerLetters) # 0 THEN UpperLetters[IndexIn(c, LowerLetters)]
    ELSE c

\* str.capitalize()
Capitalize(s) ==
    [i \in DOMAIN s |-> IF i = 1 THEN PyUpperChar(s[i]) ELSE PyLowerChar(s[i])]

\* the supplier left as the code's own characters, whatever the table says
SupplierOfRestRaw(rest) == IF rest = <<>> THEN NULL ELSE Some(rest)

\* lines 133-139: the table's name for a supplier code, else the rest verbatim
SupplierOfRest(rest) ==
    IF rest = <<>> THEN NULL
    ELSE LET hits == {i \in DOMAIN SUPPLIERS : SUPPLIERS[i][2] = rest} IN
         IF hits # {}
         THEN Some(Capitalize(SUPPLIERS[CHOOSE i \in hits : \A j \in hits : i <= j][1]))
         ELSE Some(rest)

\* lines 99-141, for a non-empty code
parse_article_code(code) ==
    LET paper == IF StartsWith(code, KB) THEN Some(KraftBlanchiName)
                 ELSE IF StartsWith(code, KE) THEN Some(KraftEcruName)
                 ELSE NULL
        c1 == IF paper # NULL THEN Drop(code, 2) ELSE code
        g == DigitRun(c1)
        c2 == Drop(c1, Len(g))
        l == IF c2 # <<>> /\ Head(c2) = "L" THEN DigitRun(Tail(c2)) ELSE <<>>
        c3 == IF l # <<>> THEN Drop(c2, Len(l) + 1) ELSE c2
    IN [paper_type |-> paper,
        grammage |-> IF g # <<>> THEN Some(IntOf(g)) ELSE NULL,
        laize |-> IF l # <<>> THEN Some(IntOf(l)) ELSE NULL,
        supplier |-> SupplierOfRest(c3)]

(***************************************************************************)
(* SpecCodec: an attribute set is encoded, the code decoded, and the       *)
(* decoded attributes encoded again                                        *)
(***************************************************************************)
KRAFTECRUUPPER == <<"K","R","A","F","T"," ","E","C","R","U">>

PAPIER == <<"p","a","p","i","e","r">>

MondiName == <<"M","o","n","d","i">>

NORDICUPPER == <<"N","O","R","D","I","C">>

AUTRE == <<"a","u","t","r","e">>

PaperInputs ==
    {NULL, Some(<<>>), Some(KRAFTBLANCHI), Some(KraftBlanchiName), Some(KRAFTNATUREL),
     Some(BLANCHI), Some(KraftEcruName), Some(KRAFTECRUUPPER), Some(PAPIER)}

\* absent, zero, a one-digit value and the standard values
GrammageInputs == {NULL} \cup {Some(n) : n \in {0, 7} \cup STANDARD_GRAMMAGES}

LaizeInputs == {NULL} \cup {Some(n) : n \in {0, 5} \cup STANDARD_LAIZES}

\* absent, the known suppliers in several spellings, and one the table lacks
SupplierInputs ==
    {NULL, Some(MONDI), Some(MondiName), Some(NORDICUPPER), Some(BILLERUD),
     Some(SMURFIT), Some(DEFAULT), Some(AUTRE)}

NoParsed == [paper_type |-> NULL, grammage |-> NULL, laize |-> NULL, supplier |-> NULL]

CodecInput(paper_type, grammage, laize, supplier) ==
    [stage |-> "attrs", paper_type |-> paper_type, grammage |-> grammage,
     laize |-> laize, supplier |-> supplier,
     code |-> <<>>, parsed |-> NoParsed, recode |-> <<>>]

InitCodec ==
    /\ clients = <<>>
    /\ commandes = <<>>
    /\ last = NoCall
    /\ prev = NoCall
    /\ procs = NoProcs
    /\ extraction = NoExtraction
    /\ codec \in { CodecInput(t, g, l, f) :
                     t \in PaperInputs, g \in GrammageInputs,
                     l \in LaizeInputs, f \in SupplierInputs }

encode ==
    /\ codec.stage = "attrs"
    /\ codec' = [codec EXCEPT
                    !.stage = "encoded",
                    !.code = generate_article_code(codec.paper_type, codec.grammage,
                                                   codec.laize, codec.supplier)]
    /\ UNCHANGED <<clients, commandes, last, prev, procs, extraction>>

decode ==
    /\ codec.stage = "encoded"
    /\ codec' = [codec EXCEPT !.stage = "decoded", !.parsed = parse_article_code(codec.code)]
    /\ UNCHANGED <<clients, commandes, last, prev, procs, extraction>>

reencode ==
    /\ codec.stage = "decoded"
    /\ codec' = [codec EXCEPT
                    !.stage = "reencoded",
                    !.recode = generate_article_code(codec.parsed.paper_type,
                                                     codec.parsed.grammage,
                                                     codec.parsed.laize,
                                                     codec.parsed.supplier)]
    /\ UNCHANGED <<clients, commandes, last, prev, procs, extraction>>

NextCodec == encode \/ decode \/ reencode

SpecCodec == InitCodec /\ [][NextCodec]_vars

\* C9: for every code C that generate_article_code returns, over all
\* combinations of paper type, grammage, laize and supplier (each possibly
\* absent), generate_article_code of parse_article_code(C) is C again.
C9_EncodeDecodeEncode == codec.stage = "reencoded" => codec.recode = codec.code

\* a code with all four segments, the supplier given in upper case, came back
C9_Witness ==
    /\ codec.stage = "reencoded"
    /\ codec.supplier = Some(NORDICUPPER)
    /\ codec.code = <<"K","B","1","0","0","L","2","8","N","O","R">>
    /\ codec.recode = codec.code

AllPresent ==
    /\ TruthyStr(codec.paper_type)
    /\ TruthyNum(codec.grammage)
    /\ TruthyNum(codec.laize)
    /\ TruthyStr(codec.supplier)

\* C10: for every attribute set with paper type, grammage, laize and supplier
\* all present (the supplier a known one or the catch-all), parse_article_code
\* of the generated code returns the same paper type (the same of the two
\* kinds), grammage, laize and supplier (letter case aside).
C10_DecodeEncode ==
    (codec.stage = "decoded" /\ AllPresent) =>
        /\ TypeCode(codec.parsed.paper_type) = TypeCode(codec.paper_type)
        /\ codec.parsed.paper_type # NULL
        /\ codec.parsed.grammage = codec.grammage
        /\ codec.parsed.laize = codec.laize
        /\ codec.parsed.supplier # NULL
        /\ PyLower(Val(codec.parsed.supplier)) = PyLower(Val(codec.supplier))

(***************************************************************************)
(* SpecParse: a code that may come from anywhere is decoded, and the       *)
(* decoded attributes are encoded                                          *)
(***************************************************************************)
MON == <<"M","O","N">>

XYZ == <<"X","Y","Z">>

TypeSegments == {<<>>, KB, KE}

GrammageSegments == {<<"8","0">>, <<"1","0","0">>}

LaizeSegments == {<<>>, <<"L","2","8">>}

\* none, two table codes, and segments no table code equals: unknown letters,
\* a code followed by a letter, a supplier's name in lower and in upper case
SupplierSegments ==
    {<<>>, MON, <<"S","T","D">>, XYZ, <<"Q">>, MON \o <<"X">>, MONDI,
     <<"N","O","R","D","I","C">>}

CodeInputs ==
    { t \o g \o l \o f : t \in TypeSegments, g \in GrammageSegments,
                         l \in LaizeSegments, f \in SupplierSegments }

InitParse ==
    /\ clients = <<>>
    /\ commandes = <<>>
    /\ last = NoCall
    /\ prev = NoCall
    /\ procs = NoProcs
    /\ extraction = NoExtraction
    /\ codec \in { [CodecInput(NULL, NULL, NULL, NULL) EXCEPT !.stage = "encoded", !.code = c] :
                     c \in CodeInputs }

NextParse == decode \/ reencode

SpecParse == InitParse /\ [][NextParse]_vars

\* lines 111-130: what is left of the code once type, grammage and laize are read
SupplierSegment(code) ==
    LET c1 == IF StartsWith(code, KB) \/ StartsWith(code, KE) THEN Drop(code, 2) ELSE code
        c2 == Drop(c1, Len(DigitRun(c1)))
        l == IF c2 # <<>> /\ Head(c2) = "L" THEN DigitRun(Tail(c2)) ELSE <<>>
    IN IF l # <<>> THEN Drop(c2, Len(l) + 1) ELSE c2

UnknownSupplierSegment(code) ==
    /\ SupplierSegment(code) # <<>>
    /\ \A i \in DOMAIN SUPPLIERS : SUPPLIERS[i][2] # SupplierSegment(code)

\* C11: for a code whose trailing supplier segment equals no code of the
\* supplier table, parse_article_code returns that segment unchanged as the
\* supplier, and generate_article_code of the parsed attributes is the
\* original code, trailing characters included.
C11_UnknownSupplierRoundTrip ==
    (codec.stage = "reencoded" /\ UnknownSupplierSegment(codec.code)) =>
        /\ codec.parsed.supplier = Some(SupplierSegment(codec.code))
        /\ codec.recode = codec.code

\* the first half alone: the segment is kept as the supplier
C11_SegmentKept ==
    (codec.stage \in {"decoded", "reencoded"} /\ UnknownSupplierSegment(codec.code)) =>
        codec.parsed.supplier = Some(SupplierSegment(codec.code))

(***************************************************************************)
(* src/data_extractor.py: DataExtractor.fill_from_history                  *)
(*                                                                         *)
(* A draft (extracted_data) is a dict: a key that is missing and a key     *)
(* whose value is None read alike through dict.get(key) and are both NULL  *)
(* here, except 'confiance', which the code reads with a default and where *)
(* the missing key is Missing.  Prices are counted in whole units.         *)
(***************************************************************************)
\* line 239-247: field_mapping.items(), draft field first, last order's column second
field_mapping ==
    << <<"type_produit", "produit_type">>,
       <<"nature_produit", "nature_produit">>,
       <<"quantite", "quantite">>,
       <<"unite", "unite">>,
       <<"prix_unitaire", "prix_unitaire">>,
       <<"prix_total", "prix_total">>,
       <<"devise", "devise">> >>

FillFields == { field_mapping[i][1] : i \in DOMAIN field_mapping }

NumberFields == {"quantite", "prix_unitaire", "prix_total"}

\* bool(value) of a field's value
Truthy(field, v) == IF field \in NumberFields THEN TruthyNum(v) ELSE TruthyStr(v)

\* the key 'confiance' is not in the dict: neither None nor a number
Missing == <<0, 0>>

ConfidenceFloor == 85

\* lines 248-252: the fields filled, in field_mapping order
RECURSIVE FilledFields(_, _, _)
FilledFields(d, h, i) ==
    IF i > Len(field_mapping) THEN <<>>
    ELSE LET new_field == field_mapping[i][1]
             old_field == field_mapping[i][2]
         IN (IF ~Truthy(new_field, d[new_field]) /\ Truthy(new_field, h[old_field])
             THEN <<new_field>> ELSE <<>>) \o FilledFields(d, h, i + 1)

SeqToSet(s) == { s[i] : i \in DOMAIN s }

OldField(new_field) ==
    LET i == CHOOSE j \in DOMAIN field_mapping : field_mapping[j][1] = new_field
    IN field_mapping[i][2]

\* line 257: last_order.get('numero_commande') or f"ID-{last_order.get('id')}"
HistorySourceOrder(h) ==
    IF TruthyStr(h.numero_commande) THEN Val(h.numero_commande)
    ELSE <<"I","D","-">> \o StrNat(h.id)

\* lines 232-265; last_order is NULL (None) or Some(row).  The result is the
\* dict the caller holds afterwards and how the call ended.
FillFromHistory(d, last_order) ==
    IF last_order = NULL THEN [outcome |-> "ok", draft |-> d]
    ELSE
      LET h == Val(last_order)
          filled_fields == FilledFields(d, h, 1)
          copied == [f \in DOMAIN d |->
                        IF f \in SeqToSet(filled_fields) THEN h[OldField(f)] ELSE d[f]]
          marked == [copied EXCEPT
                        !.filled_from_history = Some(TRUE),
                        !.history_fields = Some(filled_fields),
                        !.history_source_order = Some(HistorySourceOrder(h)),
                        !.informations_supplementaires =
                            Some(<<"[AUTO-REMPLI depuis historique]", filled_fields,
                                   Val(OrStr(d.informations_supplementaires, Some(<<>>)))>>)]
      IN IF filled_fields = <<>> THEN [outcome |-> "ok", draft |-> d]
         \* line 262-263: extracted_data.get('confiance', 0) < 85
         ELSE IF d.confiance = Missing
              THEN [outcome |-> "ok", draft |-> [marked EXCEPT !.confiance = Some(ConfidenceFloor)]]
         ELSE IF d.confiance = NULL
              THEN [outcome |-> "TypeError", draft |-> marked]
         ELSE IF Val(d.confiance) < ConfidenceFloor
              THEN [outcome |-> "ok", draft |-> [marked EXCEPT !.confiance = Some(ConfidenceFloor)]]
         ELSE [outcome |-> "ok", draft |-> marked]

(***************************************************************************)
(* SpecFill: fill_from_history applied to a draft and a last order         *)
(***************************************************************************)
\* a value of a draft field: none, a falsy one (0 or ''), a proper one
DraftValue(field, kind) ==
    IF kind = "none" THEN NULL
    ELSE IF field \in NumberFields THEN (IF kind = "falsy" THEN Some(0) ELSE Some(1))
    ELSE (IF kind = "falsy" THEN Some(<<>>) ELSE Some(<<"d">>))

\* a value of a column of the last order, different from the draft's
HistoryValue(field, kind) ==
    IF kind = "none" THEN NULL
    ELSE IF field \in NumberFields THEN (IF kind = "falsy" THEN Some(0) ELSE Some(2))
    ELSE (IF kind = "falsy" THEN Some(<<>>) ELSE Some(<<"h">>))

ValueKinds == {"none", "falsy", "value"}

ConfidenceInputs == {Missing, NULL, Some(0), Some(84), Some(85), Some(86), Some(100)}

\* extracted_data as _extract_with_openai returns it
ExtractedDraft(kinds, confiance, est_bon_commande, entreprise_cliente) ==
    [type_produit |-> DraftValue("type_produit", kinds["type_produit"]),
     nature_produit |-> DraftValue("nature_produit", kinds["nature_produit"]),
     quantite |-> DraftValue("quantite", kinds["quantite"]),
     unite |-> DraftValue("unite", kinds["unite"]),
     prix_unitaire |-> DraftValue("prix_unitaire", kinds["prix_unitaire"]),
     prix_total |-> DraftValue("prix_total", kinds["prix_total"]),
     devise |-> DraftValue("devise", kinds["devise"]),
     confiance |-> confiance,
     est_bon_commande |-> est_bon_commande,
     entreprise_cliente |-> entreprise_cliente,
     numero_commande |-> NULL,
     informations_supplementaires |-> NULL,
     filled_from_history |-> NULL,
     history_fields |-> NULL,
     history_source_order |-> NULL,
     is_reorder |-> NULL]

\* a row of get_client_last_order: commandes columns, produits.type, clients.nom
LastOrderRow(kinds, id, numero_commande, client_nom) ==
    [produit_type |-> HistoryValue("type_produit", kinds["type_produit"]),
     nature_produit |-> HistoryValue("nature_produit", kinds["nature_produit"]),
     quantite |-> HistoryValue("quantite", kinds["quantite"]),
     unite |-> HistoryValue("unite", kinds["unite"]),
     prix_unitaire |-> HistoryValue("prix_unitaire", kinds["prix_unitaire"]),
     prix_total |-> HistoryValue("prix_total", kinds["prix_total"]),
     devise |-> HistoryValue("devise", kinds["devise"]),
     id |-> id,
     numero_commande |-> numero_commande,
     client_nom |-> client_nom]

\* every column set; none set; and two mixed rows
HistoryKinds ==
    { [f \in FillFields |-> "value"],
      [f \in FillFields |-> "none"],
      [f \in FillFields |-> IF f \in {"type_produit", "quantite", "devise"}
                            THEN "value" ELSE "falsy"],
      [f \in FillFields |-> IF f \in {"type_produit", "prix_total"} THEN "none"
                            ELSE IF f = "quantite" THEN "falsy" ELSE "value"] }

LastOrderInputs ==
    {NULL} \cup { Some(LastOrderRow(k, 4, NULL, Some(NomAb))) : k \in HistoryKinds }

InitFill ==
    /\ clients = <<>>
    /\ commandes = <<>>
    /\ last = NoCall
    /\ prev = NoCall
    /\ procs = NoProcs
    /\ codec = NoCodec
    /\ extraction \in
         { [stage |-> "extracted",
            given |-> ExtractedDraft(k, c, Some(TRUE), Some(NomAb)),
            draft |-> ExtractedDraft(k, c, Some(TRUE), Some(NomAb)),
            last_order |-> h,
            outcome |-> "none"] :
           k \in [FillFields -> ValueKinds], c \in ConfidenceInputs, h \in LastOrderInputs }

fill_from_history ==
    /\ extraction.stage = "extracted"
    /\ LET r == FillFromHistory(extraction.draft, extraction.last_order)
       IN extraction' = [extraction EXCEPT
                            !.stage = "filled", !.draft = r.draft, !.outcome = r.outcome]
    /\ UNCHANGED <<clients, commandes, last, prev, procs, codec>>

NextFill == fill_from_history

SpecFill == InitFill /\ [][NextFill]_vars

\* fields whose value after the call differs from the value given
Backfilled == { f \in FillFields : extraction.draft[f] # extraction.given[f] }

Recorded ==
    IF extraction.draft.history_fields = NULL THEN {}
    ELSE SeqToSet(Val(extraction.draft.history_fields))

\* C12: when fill_from_history is given a last order and returns, each of
\* the seven fields that has a value in the draft keeps it, each that is
\* null in the draft has the last order's value and is listed in
\* history_fields, and history_fields lists no other name.
C12_BackfillPerField ==
    (extraction.stage = "filled" /\ extraction.last_order # NULL
                                 /\ extraction.outcome = "ok") =>
        /\ \A f \in FillFields :
              /\ extraction.given[f] # NULL => extraction.draft[f] = extraction.given[f]
              /\ extraction.given[f] = NULL =>
                    /\ extraction.draft[f] = Val(extraction.last_order)[OldField(f)]
                    /\ f \in Recorded
        /\ Recorded \subseteq FillFields

\* C13: whatever the draft's confidence (an integer, null or absent), when at
\* least one field was backfilled the call returns a draft with
\* filled_from_history true and confidence at least 85, an earlier
\* confidence of 85 or more being kept; when none was, filled_from_history
\* is not set and the confidence is as given.
C13_ConfidenceFloor ==
    extraction.stage = "filled" =>
        IF Backfilled # {}
        THEN /\ extraction.outcome = "ok"
             /\ extraction.draft.filled_from_history = Some(TRUE)
             /\ extraction.draft.confiance \notin {NULL, Missing}
             /\ Val(extraction.draft.confiance) >= ConfidenceFloor
             /\ (extraction.given.confiance \notin {NULL, Missing}
                   /\ Val(extraction.given.confiance) >= ConfidenceFloor)
                  => extraction.draft.confiance = extraction.given.confiance
        ELSE /\ extraction.outcome = "ok"
             /\ extraction.draft.filled_from_history = NULL
             /\ extraction.draft.confiance = extraction.given.confiance

(***************************************************************************)
(* src/data_extractor.py: detect_reorder_intent, _extract_with_openai,     *)
(* extract_from_email; src/process_orders.py and the WhatsApp webhook of   *)
(* src/app.py, which store what the extractor returns                      *)
(*                                                                         *)
(* The two language-model calls are the environment: what the classifier   *)
(* and the extractor answer, or how they fail, is an input.  The row       *)
(* get_client_last_order finds is an input as well (it reads the tables    *)
(* and writes nothing).  The article code that _extract_with_openai adds   *)
(* to a draft is a field no operation modelled here reads.                 *)
(***************************************************************************)
MaxMessages == 1

\* what the classifier call does: it raises, it times out, or it answers
ClassifierOutcome(kind, is_reorder, client_name) ==
    [kind |-> kind, is_reorder |-> is_reorder, client_name |-> client_name]

ClassifierOutcomes ==
    {ClassifierOutcome("error", FALSE, NULL), ClassifierOutcome("timeout", FALSE, NULL)}
    \cup { ClassifierOutcome("answer", r, n) : r \in BOOLEAN, n \in {NULL, Some(NomAb)} }

\* the call raising out of detect_reorder_intent
DetectReorderIntentUncaught(c) ==
    [outcome |-> IF c.kind = "answer" THEN "ok" ELSE c.kind,
     is_reorder |-> c.is_reorder, client_name |-> c.client_name]

\* lines 123-138: the answer parsed, or the fixed result of the except branch
DetectReorderIntent(c) ==
    IF c.kind = "answer"
    THEN [outcome |-> "ok", is_reorder |-> c.is_reorder, client_name |-> c.client_name]
    ELSE [outcome |-> "ok", is_reorder |-> FALSE, client_name |-> NULL]

\* json.loads gave {}: no key at all
EmptyDraft ==
    ExtractedDraft([f \in FillFields |-> "none"], Missing, NULL, NULL)

\* bool(dict)
DictTruthy(d) == d # EmptyDraft

\* what the extractor call does: a JSON object, text that is no JSON, or the
\* API call raising
ExtractorOutcome(kind, draft) == [kind |-> kind, draft |-> draft]

\* lines 402-437.  `import json` inside the function makes json a local
\* name: when the API call raises before that line has run, evaluating
\* `except json.JSONDecodeError` raises UnboundLocalError.
ExtractWithOpenAI(x) ==
    IF x.kind = "object" THEN [outcome |-> "ok", draft |-> Some(x.draft)]
    ELSE IF x.kind = "invalid_json" THEN [outcome |-> "ok", draft |-> NULL]
    ELSE [outcome |-> "UnboundLocalError", draft |-> NULL]

\* the candidate name put on the draft although no last order was found
ExtractFromEmailNaming(info, x, x2, h) ==
    IF info.outcome # "ok" THEN [outcome |-> info.outcome, draft |-> NULL]
    ELSE IF info.is_reorder /\ TruthyStr(info.client_name) /\ h # NULL
    THEN LET e1 == ExtractWithOpenAI(x) IN
         IF e1.outcome # "ok" THEN e1
         ELSE IF e1.draft # NULL /\ DictTruthy(Val(e1.draft))
         THEN LET named == [Val(e1.draft) EXCEPT
                               !.entreprise_cliente =
                                   OrStr(Val(h).client_nom, info.client_name)]
                  f == FillFromHistory(named, h)
              IN IF f.outcome # "ok" THEN [outcome |-> f.outcome, draft |-> NULL]
                 ELSE [outcome |-> "ok",
                       draft |-> Some([f.draft EXCEPT !.est_bon_commande = Some(TRUE),
                                                      !.is_reorder = Some(TRUE)])]
         ELSE ExtractWithOpenAI(x2)
    ELSE LET e == ExtractWithOpenAI(x) IN
         IF e.draft # NULL /\ info.is_reorder /\ TruthyStr(info.client_name)
         THEN [e EXCEPT !.draft = Some([Val(e.draft) EXCEPT
                                           !.entreprise_cliente = info.client_name])]
         ELSE e

\* lines 285-320.  x is the first extractor call, x2 the second one (made
\* when a last order was found and the first call gave nothing), h the row
\* get_client_last_order returns.
ExtractFromEmail(info, x, x2, h) ==
    IF info.outcome # "ok" THEN [outcome |-> info.outcome, draft |-> NULL]
    ELSE IF info.is_reorder /\ TruthyStr(info.client_name) /\ h # NULL
    THEN LET e1 == ExtractWithOpenAI(x) IN
         IF e1.outcome # "ok" THEN e1
         ELSE IF e1.draft # NULL /\ DictTruthy(Val(e1.draft))
         THEN LET named == [Val(e1.draft) EXCEPT
                               !.entreprise_cliente =
                                   OrStr(Val(h).client_nom, info.client_name)]
                  f == FillFromHistory(named, h)
              IN IF f.outcome # "ok" THEN [outcome |-> f.outcome, draft |-> NULL]
                 ELSE [outcome |-> "ok",
                       draft |-> Some([f.draft EXCEPT !.est_bon_commande = Some(TRUE),
                                                      !.is_reorder = Some(TRUE)])]
         ELSE ExtractWithOpenAI(x2)
    ELSE ExtractWithOpenAI(x)

\* order.get('est_bon_commande') of `if order and order.get('est_bon_commande')`
IsOrder(draft) ==
    /\ draft # NULL
    /\ DictTruthy(Val(draft))
    /\ Val(draft).est_bon_commande = Some(TRUE)

\* the dict handed to create_order
OrderData(d, email_id, email_from, whatsapp_from, entreprise_cliente) ==
    Draft(d.numero_commande, email_id, entreprise_cliente, email_from, whatsapp_from,
          d.quantite, NULL)

E2 == <<"m","2">>

MessageIds == {E1, E2}

\* app.py 989: f"whatsapp_{result['timestamp']}", the time of this delivery
WhatsAppId(now) == <<"w","h","a","t","s","a","p","p","_">> \o StrNat(now)

\* app.py 995-998
WhatsAppClientName(d, from_number) ==
    IF TruthyStr(d.entreprise_cliente) THEN d.entreprise_cliente
    ELSE Some(ClientWhatsApp \o <<" ">> \o RemoveAll(from_number, WhatsAppPrefix))

Idle(now) ==
    [stage |-> "idle", now |-> now, channel |-> "none", message_id |-> NULL,
     classifier |-> "none",
     reorder_info |-> [outcome |-> "none", is_reorder |-> FALSE, client_name |-> NULL],
     extracted |-> NULL, last_order |-> NULL, draft |-> NULL, outcome |-> "none",
     result |-> "none"]

InitExtract ==
    /\ clients = <<>>
    /\ commandes = <<>>
    /\ last = NoCall
    /\ prev = NoCall
    /\ procs = NoProcs
    /\ codec = NoCodec
    /\ extraction = Idle(0)

\* a message arrives: an email of the mailbox, or a delivery to the webhook
receive(channel, message_id) ==
    /\ extraction.stage \in {"idle", "done"}
    /\ extraction.now < MaxMessages
    /\ extraction' = [Idle(extraction.now + 1) EXCEPT
                         !.stage = "received", !.channel = channel,
                         !.message_id = Some(message_id)]
    /\ UNCHANGED <<clients, commandes, last, prev, procs, codec>>

\* data_extractor.py 286
detect_reorder_intent(c) ==
    /\ extraction.stage = "received"
    /\ extraction' = [extraction EXCEPT
                         !.stage = "classified", !.classifier = c.kind,
                         !.reorder_info = DetectReorderIntent(c)]
    /\ UNCHANGED <<clients, commandes, last, prev, procs, codec>>

\* data_extractor.py 288-320
extract_from_email(x, x2, h) ==
    /\ extraction.stage = "classified"
    /\ LET info == extraction.reorder_info
           asked == info.outcome = "ok" /\ info.is_reorder /\ TruthyStr(info.client_name)
           r == ExtractFromEmail(info, x, x2, h)
       IN /\ ~asked => h = NULL
          /\ ~(asked /\ h # NULL /\ x.kind # "api_error"
                  /\ (x.kind = "invalid_json" \/ ~DictTruthy(x.draft))) => x2 = x
          /\ extraction' = [extraction EXCEPT
                               !.stage = "extracted",
                               !.extracted = IF x.kind = "object" THEN Some(x.draft) ELSE NULL,
                               !.last_order = h,
                               !.draft = r.draft, !.outcome = r.outcome]
    /\ UNCHANGED <<clients, commandes, last, prev, procs, codec>>

\* process_orders.py 96-105 and 65-68: metadata, then create_order for an
\* order; an exception of the extractor leaves process_new_emails
process_single_email ==
    /\ extraction.stage = "extracted"
    /\ extraction.channel = "email"
    /\ IF extraction.outcome # "ok"
       THEN /\ extraction' = [extraction EXCEPT !.stage = "done", !.result = "aborted"]
            /\ UNCHANGED <<clients, commandes, last, prev>>
       ELSE IF ~IsOrder(extraction.draft)
       THEN /\ extraction' = [extraction EXCEPT !.stage = "done", !.result = "skipped"]
            /\ UNCHANGED <<clients, commandes, last, prev>>
       ELSE LET d == Val(extraction.draft)
                order == OrderData(d, extraction.message_id, Some(Mail1), NULL,
                                   d.entreprise_cliente)
                r == CreateOrder(clients, commandes, order)
            IN /\ clients' = r.cls
               /\ commandes' = r.cmds
               /\ prev' = last
               /\ last' = OrderCall(order, r)
               /\ extraction' = [extraction EXCEPT
                                    !.stage = "done",
                                    !.result = IF r.outcome = "ok" THEN "stored" ELSE "aborted"]
    /\ UNCHANGED <<procs, codec>>

\* app.py 985-1029: the same for a chat message; every exception is answered
\* with status 500
whatsapp_webhook ==
    /\ extraction.stage = "extracted"
    /\ extraction.channel = "whatsapp"
    /\ IF extraction.outcome # "ok"
       THEN /\ extraction' = [extraction EXCEPT !.stage = "done", !.result = "aborted"]
            /\ UNCHANGED <<clients, commandes, last, prev>>
       ELSE IF ~IsOrder(extraction.draft)
       THEN /\ extraction' = [extraction EXCEPT !.stage = "done", !.result = "skipped"]
            /\ UNCHANGED <<clients, commandes, last, prev>>
       ELSE LET d == Val(extraction.draft)
                order == OrderData(d, Some(WhatsAppId(extraction.now)), Some(Wa1), Some(Wa1),
                                   WhatsAppClientName(d, Wa1))
                r == CreateOrder(clients, commandes, order)
            IN /\ clients' = r.cls
               /\ commandes' = r.cmds
               /\ prev' = last
               /\ last' = OrderCall(order, r)
               /\ extraction' = [extraction EXCEPT
                                    !.stage = "done",
                                    !.result = IF r.outcome = "ok" THEN "stored" ELSE "aborted"]
    /\ UNCHANGED <<procs, codec>>

\* drafts the extractor may answer: the validity flag true, false, null or
\* missing; with and without a customer name and an order number; some
\* fields set
ExtractorDrafts ==
    { [ExtractedDraft(k, c, v, n) EXCEPT !.numero_commande = o] :
        k \in { [f \in FillFields |-> "none"],
                [f \in FillFields |-> IF f = "quantite" THEN "value" ELSE "none"] },
        c \in {NULL, Some(50)},
        v \in {NULL, Some(TRUE), Some(FALSE)},
        n \in {NULL, Some(NomAb)},
        o \in {NULL, Some(N1)} }

ExtractorOutcomes ==
    { ExtractorOutcome("object", d) : d \in ExtractorDrafts \cup {EmptyDraft} }
    \cup {ExtractorOutcome("invalid_json", EmptyDraft), ExtractorOutcome("api_error", EmptyDraft)}

\* answers of the second extractor call, when it differs from the first
RetryOutcomes ==
    { ExtractorOutcome("object",
                       ExtractedDraft([f \in FillFields |-> "none"], Some(50), v, Some(NomAb))) :
        v \in {Some(TRUE), Some(FALSE)} }
    \cup {ExtractorOutcome("api_error", EmptyDraft)}

NextExtract ==
    \/ \E m \in MessageIds : receive("email", m)
    \/ receive("whatsapp", E1)
    \/ \E c \in ClassifierOutcomes : detect_reorder_intent(c)
    \/ \E x \in ExtractorOutcomes, h \in LastOrderInputs :
          \E x2 \in {x} \cup RetryOutcomes : extract_from_email(x, x2, h)
    \/ process_single_email
    \/ whatsapp_webhook

SpecExtract == InitExtract /\ [][NextExtract]_vars

\* C14: when the classifier call raises or times out, detect_reorder_intent
\* returns is_reorder false, extract_from_email returns what the standard
\* extraction returns, and a draft that is an order is stored; the pipeline
\* is not aborted by the classifier's failure.
C14_ClassifierFailureDegrades ==
    extraction.classifier \in {"error", "timeout"} =>
        /\ extraction.reorder_info.outcome = "ok"
        /\ ~extraction.reorder_info.is_reorder
        /\ extraction.stage \in {"extracted", "done"} =>
              /\ extraction.last_order = NULL
              /\ extraction.draft = extraction.extracted
        /\ (extraction.stage = "done" /\ IsOrder(extraction.extracted)) =>
              /\ extraction.result = "stored"
              /\ last.outcome = "ok"
              /\ \E i \in DOMAIN commandes : last.returned = <<commandes[i].id>>

\* the classifier timed out and the order of the email was stored
C14_Witness ==
    /\ extraction.classifier = "timeout"
    /\ extraction.stage = "done"
    /\ extraction.channel = "email"
    /\ IsOrder(extraction.extracted)
    /\ extraction.result = "stored"
    /\ Len(commandes) = 1

(***************************************************************************)
(* src/data_extractor.py: normalize_client_name, find_matching_client      *)
(*                                                                         *)
(* A score is the fraction <<numerator, denominator>>; the code's floats   *)
(* order as these fractions do for names of up to eight words.             *)
(***************************************************************************)
\* lines 146-147: lower case, NFD, combining marks dropped
Unaccent(c) == IF PyLowerChar(c) = "e_acute" THEN "e" ELSE PyLowerChar(c)

\* line 149: .replace("'", "").replace("-", " ").replace(".", "")
RECURSIVE Depunctuate(_)
Depunctuate(s) ==
    IF s = <<>> THEN <<>>
    ELSE IF Head(s) \in {"'", "."} THEN Depunctuate(Tail(s))
    ELSE IF Head(s) = "-" THEN <<" ">> \o Depunctuate(Tail(s))
    ELSE <<Head(s)>> \o Depunctuate(Tail(s))

\* lines 140-150; name is NULL or Some(str)
normalize_client_name(name) ==
    IF ~TruthyStr(name) THEN <<>>
    ELSE Strip(Depunctuate([i \in DOMAIN Val(name) |-> Unaccent(Val(name)[i])]))

\* the first word of a string that starts with no blank
RECURSIVE FirstWord(_)
FirstWord(s) ==
    IF s = <<>> \/ Head(s) = " " THEN <<>> ELSE <<Head(s)>> \o FirstWord(Tail(s))

\* set(str.split())
RECURSIVE Words(_)
Words(s) ==
    LET t == LStrip(s) IN
    IF t = <<>> THEN {}
    ELSE {FirstWord(t)} \cup Words(Drop(t, Len(FirstWord(t))))

Max(a, b) == IF a >= b THEN a ELSE b

BoostTenths == 3

MainWordLength == 3

ThresholdTenths == 3

\* lines 174-178, for a candidate with a common word
ScoreOf(search_words, client_normalized) ==
    LET client_words == Words(client_normalized)
        common_words == search_words \cap client_words
        longest == Max(Cardinality(search_words), Cardinality(client_words))
        boost == \E w \in search_words :
                    Len(w) > MainWordLength /\ Contains(client_normalized, w)
    IN <<10 * Cardinality(common_words) + (IF boost THEN BoostTenths * longest ELSE 0),
         10 * longest>>

Greater(p, q) == p[1] * q[2] > q[1] * p[2]

\* lines 167-182: the loop over the rows from row i on; best_match is a row
\* number, 0 for None
RECURSIVE BestMatch(_, _, _, _, _)
BestMatch(cls, search_words, i, best_match, best_score) ==
    IF i > Len(cls) THEN [best_match |-> best_match, best_score |-> best_score]
    ELSE LET client_normalized == normalize_client_name(Some(cls[i].nom))
             score == ScoreOf(search_words, client_normalized)
         IN IF search_words \cap Words(client_normalized) # {} /\ Greater(score, best_score)
            THEN BestMatch(cls, search_words, i + 1, i, score)
            ELSE BestMatch(cls, search_words, i + 1, best_match, best_score)

\* the threshold left out: any best match is returned
FindMatchingClientAnyScore(cls, search_name) ==
    LET b == BestMatch(cls, Words(normalize_client_name(search_name)), 1, 0, <<0, 1>>)
    IN IF b.best_match # 0 THEN Some(cls[b.best_match].nom) ELSE NULL

\* lines 152-188, with a connected database; the result is a nom or NULL
FindMatchingClient(cls, search_name) ==
    LET b == BestMatch(cls, Words(normalize_client_name(search_name)), 1, 0, <<0, 1>>)
    IN IF b.best_match # 0 /\ Greater(b.best_score, <<ThresholdTenths, 10>>)
       THEN Some(cls[b.best_match].nom)
       ELSE NULL

(***************************************************************************)
(* SpecFuzzy: find_matching_client over a clients table                    *)
(***************************************************************************)
MaxStored == 3

CafeAtlas == <<"C","a","f","e_acute"," ","A","t","l","a","s">>

Atlas == <<"A","t","l","a","s">>

AtlasDot == <<"A","T","L","A","S",".">>

Atlasco == <<"A","t","l","a","s","c","o">>

AbDu == <<"A","b"," ","D","u">>

AbDuCafeAtlas == <<"A","b","-","D","u"," ","C","a","f","e"," ","A","t","l","a","s">>

\* names of stored clients: one and several words, short and long ones, an
\* accent, punctuation, a word that only contains another
StoredNames == {CafeAtlas, Atlas, AtlasDot, Atlasco, AbDu, AbDuCafeAtlas, NomABupper}

SearchNames ==
    {NULL, Some(<<>>), Some(<<"a","t","l","a","s">>),
     Some(<<"C","A","F","E_acute"," ","a","t","l","a","s">>),
     Some(<<"a","b">>), Some(<<"a","b"," ","d","u"," ","x"," ","y">>),
     Some(<<"d","u"," ","x"," ","y"," ","z">>),
     Some(<<"l","'","a","t","l","a","s">>), Some(<<"a","t","l","a","s","c">>)}

\* tables of up to MaxStored clients with different names
StoredTables ==
    { [i \in 1..n |-> ClientRow(i, f[i], NULL, NULL)] :
        n \in 0..MaxStored,
        f \in { g \in [1..MaxStored -> StoredNames] :
                  \A i, j \in 1..MaxStored : i # j => g[i] # g[j] } }

InitFuzzy ==
    /\ clients \in StoredTables
    /\ commandes = <<>>
    /\ last = NoCall
    /\ prev = NoCall
    /\ procs = NoProcs
    /\ codec = NoCodec
    /\ extraction = NoExtraction

find_matching_client(search_name) ==
    /\ last' = [NoCall EXCEPT !.op = "find_matching_client", !.nom = search_name,
                              !.returned = FindMatchingClient(clients, search_name),
                              !.outcome = "ok"]
    /\ prev' = NoCall
    /\ UNCHANGED <<clients, commandes, procs, codec, extraction>>

NextFuzzy == \E n \in SearchNames : find_matching_client(n)

SpecFuzzy == InitFuzzy /\ [][NextFuzzy]_vars

\* the score as a number of 1/(10 * Len) units, Len being the larger word count
SearchTokens == Words(normalize_client_name(last.nom))

CandidateTokens(i) == Words(normalize_client_name(Some(clients[i].nom)))

Longest(i) == Max(Cardinality(SearchTokens), Cardinality(CandidateTokens(i)))

SubstringBoost(i) ==
    \E w \in SearchTokens :
        Len(w) > 3 /\ Contains(normalize_client_name(Some(clients[i].nom)), w)

\* overlap / longest + 0.3 for the boost, over the denominator 10 * Longest(i)
ScoreNum(i) ==
    10 * Cardinality(SearchTokens \cap CandidateTokens(i))
        + (IF SubstringBoost(i) THEN 3 * Longest(i) ELSE 0)

ScoreAbove(i, j) == ScoreNum(i) * Longest(j) > ScoreNum(j) * Longest(i)

ScoreAboveThreshold(i) == ScoreNum(i) > 3 * Longest(i)

FirstMaximal ==
    { i \in DOMAIN clients :
        /\ \A j \in DOMAIN clients : ~ScoreAbove(j, i)
        /\ \A j \in 1..(i - 1) : ScoreAbove(i, j) }

\* C15: find_matching_client returns the first client in stored order whose
\* score is maximal, the score being common words over the larger word
\* count, plus 0.3 when a search word longer than 3 characters occurs in
\* the client's normalized name, when that score exceeds 0.3, and None
\* otherwise; a client with no word in common is never returned.
C15_FirstBestAboveThreshold ==
    last.op = "find_matching_client" =>
        /\ IF \E i \in FirstMaximal : ScoreAboveThreshold(i)
           THEN \E i \in FirstMaximal : last.returned = Some(clients[i].nom)
           ELSE last.returned = NULL
        /\ last.returned # NULL =>
              \E i \in DOMAIN clients :
                  /\ clients[i].nom = Val(last.returned)
                  /\ SearchTokens \cap CandidateTokens(i) # {}

\* two stored names tie on the best score and the earlier one is returned,
\* while a third contains the search word without having it as a word
C15_Witness ==
    /\ last.op = "find_matching_client"
    /\ Len(clients) = 3
    /\ clients[1].nom = Atlasco
    /\ clients[2].nom = AtlasDot
    /\ clients[3].nom = Atlas
    /\ last.nom = Some(<<"a","t","l","a","s">>)
    /\ last.returned = Some(AtlasDot)

(***************************************************************************)
(* C16, C17: the two modes of get_or_create_client (SpecStore)             *)
(***************************************************************************)
\* the call was given a name that is neither empty nor a placeholder
ExactMode(call) ==
    /\ TruthyStr(call.nom_given)
    /\ Strip(Val(call.nom_given)) # <<>>
    /\ IsRealName(Val(call.nom_given))

\* C16: when get_or_create_client, called with a genuine name, finds the
\* client by name, the email and the telephone that are null on the stored
\* row and given in the call are stored on the row, and the dict returned
\* carries them.
C16_ContactsFilled ==
    [][ (last'.op = "get_or_create_client" /\ ExactMode(last') /\ ~last'.inserted) =>
          LET i == last'.returned[1] IN
          /\ (clients[i].email = NULL /\ TruthyStr(last'.email)) =>
                /\ clients'[i].email = last'.email
                /\ Val(last'.client).email = last'.email
          /\ (clients[i].telephone = NULL /\ TruthyStr(last'.telephone)) =>
                /\ clients'[i].telephone = last'.telephone
                /\ Val(last'.client).telephone = last'.telephone ]_vars

\* C17: called with an empty name or a placeholder name,
\* get_or_create_client returns a stored client with the telephone given
\* when there is one, else a stored client with the email given when there
\* is one, and inserts a client only when there is neither.
C17_PlaceholderLookup ==
    [][ (last'.op = "get_or_create_client" /\ ~ExactMode(last')) =>
          LET byPhone == { i \in DOMAIN clients :
                             TruthyStr(last'.telephone)
                             /\ clients[i].telephone = last'.telephone }
              byEmail == { i \in DOMAIN clients :
                             TruthyStr(last'.email) /\ clients[i].email = last'.email }
          IN IF byPhone # {}
             THEN last'.returned[1] \in byPhone /\ ~last'.inserted /\ clients' = clients
             ELSE IF byEmail # {}
             THEN last'.returned[1] \in byEmail /\ ~last'.inserted /\ clients' = clients
             ELSE last'.inserted /\ Len(clients') = Len(clients) + 1 ]_vars

(***************************************************************************)
(* SpecStore: the operations that write the clients table,                 *)
(* get_or_create_client and create_order.  SpecStatus: the operations that *)
(* write an order's statut, create_order, update_order_status (database.py *)
(* 487-504), update_order (506-519) and delete_order (521-526)             *)
(***************************************************************************)
MaxValidations == 2

Validee == <<"v","a","l","i","d","e","e">>

Rejetee == <<"r","e","j","e","t","e","e">>

Supprimee == <<"s","u","p","p","r","i","m","e","e">>

Commercial == <<"C","o","m","m","e","r","c","i","a","l">>

\* datetime.now() of a validation: later than every validation before it
Now(cmds) ==
    LET times == {0} \cup { cmds[i].validated_at[1] :
                              i \in { j \in DOMAIN cmds : cmds[j].validated_at # NULL } }
    IN  1 + (CHOOSE t \in times : \A u \in times : u <= t)

\* database.py 487-504
UpdateOrderStatus(cmds, order_id, status, validated_by) ==
    [i \in DOMAIN cmds |->
        IF i # order_id THEN cmds[i]
        ELSE IF status = Validee
        THEN [cmds[i] EXCEPT !.statut = status, !.validated_at = Some(Now(cmds)),
                             !.validated_by = validated_by]
        ELSE [cmds[i] EXCEPT !.statut = status]]

\* database.py 521-526
DeleteOrder(cmds, order_id) ==
    [i \in DOMAIN cmds |->
        IF i # order_id THEN cmds[i] ELSE [cmds[i] EXCEPT !.statut = Supprimee]]

\* app.py 247 and 313: the two statuses the application passes
update_order_status(order_id, status, validated_by) ==
    /\ status = Validee => Now(commandes) <= MaxValidations
    /\ commandes' = UpdateOrderStatus(commandes, order_id, status, validated_by)
    /\ prev' = NoCall
    /\ last' = UpdateCall("update_order_status", order_id, {"statut"}, "ok")
    /\ UNCHANGED <<clients, procs, codec, extraction>>

\* update_order(order_id, {'statut': statut}), as api_update_order passes a
\* request body on (app.py 370-382)
update_order(order_id, statut) ==
    /\ commandes' = [i \in DOMAIN commandes |->
                        IF i # order_id THEN commandes[i]
                        ELSE [commandes[i] EXCEPT !.statut = statut]]
    /\ prev' = NoCall
    /\ last' = UpdateCall("update_order", order_id, {"statut"}, "ok")
    /\ UNCHANGED <<clients, procs, codec, extraction>>

delete_order(order_id) ==
    /\ commandes' = DeleteOrder(commandes, order_id)
    /\ prev' = NoCall
    /\ last' = UpdateCall("delete_order", order_id, {"statut"}, "ok")
    /\ UNCHANGED <<clients, procs, codec, extraction>>

Phone2 == <<"+","2">>

\* no number, an empty one, and two numbers
StorePhones == {NULL, Some(<<>>), Some(Phone1), Some(Phone2)}

\* get_or_create_client and create_order as above, the call before the
\* latest one not being kept
store_client(nom, email, telephone) ==
    LET r == GetOrCreateClient(clients, nom, email, telephone) IN
    /\ Len(r.cls) <= MaxClients
    /\ clients' = r.cls
    /\ prev' = NoCall
    /\ last' = ClientCallArgs(nom, Some(DefaultNom(nom, email, telephone)), email, telephone, r)
    /\ UNCHANGED <<commandes, procs, codec, extraction>>

store_order(d) ==
    LET r == CreateOrder(clients, commandes, d) IN
    /\ Len(r.cmds) <= MaxOrders
    /\ Len(r.cls) <= MaxClients
    /\ clients' = r.cls
    /\ commandes' = r.cmds
    /\ prev' = NoCall
    /\ last' = OrderCall(d, r)
    /\ UNCHANGED <<procs, codec, extraction>>

\* drafts of one message, with and without a name, from a mailbox or from a
\* chat number
StoreDrafts ==
    { Draft(NULL, Some(E1), c, NULL, w, NULL, NULL) :
        c \in {NULL, Some(NomAb)}, w \in {NULL, Some(Wa1)} }

NextStore ==
    \/ \E email \in ClientEmails, telephone \in StorePhones :
          store_client(Some(NomAb), email, telephone)
    \/ \E nom \in {NULL, Some(ClientInconnu)}, telephone \in ClientPhones :
          store_client(nom, NULL, telephone)
    \/ \E nom \in {Some(<<>>), Some(<<" ">>)} : store_client(nom, Some(<<>>), Some(<<>>))
    \/ \E d \in StoreDrafts : store_order(d)

SpecStore == Init /\ [][NextStore]_vars

\* nameless drafts of two messages
StatusDrafts == { Draft(NULL, Some(e), NULL, NULL, NULL, NULL, NULL) : e \in {E1, E2} }

NextStatus ==
    \/ \E d \in StatusDrafts : store_order(d)
    \/ \E id \in OrderIds, status \in {Validee, Rejetee} :
          update_order_status(id, status, Some(Commercial))
    \/ \E id \in OrderIds : update_order(id, EnAttente)
    \/ \E id \in OrderIds : delete_order(id)

SpecStatus == Init /\ [][NextStatus]_vars

\* C18 as stated: no client row disappears, no name changes, and an email or
\* telephone that is not null is never replaced.
C18_NonNullNeverOverwritten ==
    [][ /\ Len(clients') >= Len(clients)
        /\ \A i \in DOMAIN clients :
              /\ clients'[i].id = clients[i].id
              /\ clients'[i].nom = clients[i].nom
              /\ clients[i].email # NULL => clients'[i].email = clients[i].email
              /\ clients[i].telephone # NULL =>
                    clients'[i].telephone = clients[i].telephone ]_vars

\* C18: over every operation no client row disappears and no name or email
\* changes; a telephone changes only from null or the empty string to a
\* non-empty one.
C18_ClientsFrame ==
    [][ /\ Len(clients') >= Len(clients)
        /\ \A i \in DOMAIN clients :
              /\ clients'[i].id = clients[i].id
              /\ clients'[i].nom = clients[i].nom
              /\ clients'[i].email = clients[i].email
              /\ clients'[i].telephone # clients[i].telephone =>
                    /\ ~TruthyStr(clients[i].telephone)
                    /\ TruthyStr(clients'[i].telephone) ]_vars

\* a client found by name kept its telephone when the call gave another one
C18_Witness ==
    /\ last.op = "get_or_create_client"
    /\ ~last.inserted
    /\ last.telephone = Some(Phone2)
    /\ clients[last.returned[1]].telephone = Some(Phone1)

\* C19: an order is created en_attente, and in every state reached through
\* update_order_status, update_order and delete_order the statut of every
\* order is en_attente, validee or rejetee.
C19_ThreeStatuses ==
    /\ (last.op = "create_order" /\ last.inserted) =>
          commandes[last.returned[1]].statut = EnAttente
    /\ \A i \in DOMAIN commandes : commandes[i].statut \in {EnAttente, Validee, Rejetee}

(***************************************************************************)
(* C20: create_order given a payload with no key at all (Spec)             *)
(***************************************************************************)
\* the payload {}: every dict.get of create_order (database.py 338-369)
\* answers None, est_bon_commande is among the absent keys and is not read
EmptyPayload == Draft(NULL, NULL, NULL, NULL, NULL, NULL, NULL)

\* C20: create_order of the empty payload, which lacks est_bon_commande, ends
\* in an error and leaves the clients and the orders as they were.
C20_EmptyPayloadRejected ==
    [][ create_order(EmptyPayload) =>
          /\ last'.outcome # "ok"
          /\ clients' = clients
          /\ commandes' = commandes ]_vars

(***************************************************************************)
(* C27: create_order finding its key stored (Spec)                         *)
(***************************************************************************)
\* an order of the table carries the number or the message id of the call
KeyStored(cmds, call) ==
    \E i \in DOMAIN cmds :
        \/ TruthyStr(call.numero_commande) /\ cmds[i].numero_commande = call.numero_commande
        \/ TruthyStr(call.email_id) /\ cmds[i].email_id = call.email_id

\* C27: a create_order call whose number or message id an order already
\* carries inserts no order, leaves every client and every order as it was,
\* and returns the id of an order carrying the key, whatever else the draft
\* holds.
C27_ShortCircuitChangesNothing ==
    [][ (last'.op = "create_order" /\ KeyStored(commandes, last')) =>
          /\ last'.outcome = "ok"
          /\ ~last'.inserted
          /\ clients' = clients
          /\ commandes' = commandes
          /\ \E i \in DOMAIN commandes :
                /\ last'.returned = <<commandes[i].id>>
                /\ \/ commandes[i].numero_commande = last'.numero_commande
                   \/ commandes[i].email_id = last'.email_id ]_vars

\* a draft with the message id of a stored order and another number was
\* answered with that order's id, the order keeping its number
C27_Witness ==
    /\ last.op = "create_order"
    /\ prev.op = "create_order"
    /\ prev.inserted
    /\ ~last.inserted
    /\ last.email_id = prev.email_id
    /\ TruthyStr(last.numero_commande)
    /\ TruthyStr(prev.numero_commande)
    /\ last.numero_commande # prev.numero_commande
    /\ last.returned = prev.returned
    /\ commandes[last.returned[1]].numero_commande = prev.numero_commande

(***************************************************************************)
(* SpecRedelivery: one chat message delivered to the webhook again (C28)   *)
(***************************************************************************)
MaxDeliveries == 2

\* the transport posts the message once more after the webhook has answered;
\* process_incoming_message stamps it with the time of this delivery
\* (whatsapp_receiver.py 54)
redeliver ==
    /\ extraction.stage = "done"
    /\ extraction.channel = "whatsapp"
    /\ extraction.now < MaxDeliveries
    /\ extraction' = [Idle(extraction.now + 1) EXCEPT
                         !.stage = "received", !.channel = "whatsapp",
                         !.message_id = extraction.message_id]
    /\ UNCHANGED <<clients, commandes, last, prev, procs, codec>>

NextRedelivery ==
    \/ receive("whatsapp", E1)
    \/ redeliver
    \/ \E c \in ClassifierOutcomes : detect_reorder_intent(c)
    \/ \E x \in ExtractorOutcomes, h \in LastOrderInputs : extract_from_email(x, x, h)
    \/ whatsapp_webhook

SpecRedelivery == InitExtract /\ [][NextRedelivery]_vars

\* the orders stored by the webhook
WhatsAppOrders ==
    { i \in DOMAIN commandes :
        \E t \in 1..MaxDeliveries : commandes[i].email_id = Some(WhatsAppId(t)) }

\* C28: however often the one chat message is delivered to the webhook, at
\* most one order is stored for it.
C28_RedeliveryStoresOnce == Cardinality(WhatsAppOrders) <= 1

(***************************************************************************)
(* C24: get_or_create_client given nothing, or blanks (SpecStore)          *)
(***************************************************************************)
\* the call had no name, or a blank one, and neither email nor telephone
NothingGiven(call) ==
    /\ ~TruthyStr(call.nom_given) \/ Strip(Val(call.nom_given)) = <<>>
    /\ ~TruthyStr(call.email)
    /\ ~TruthyStr(call.telephone)

\* C24: get_or_create_client ends without an error for every name, email
\* and telephone, absent or empty ones among them; the dict it returns has
\* the id of a stored client, and when the call had no name, no email and no
\* telephone that client is named 'Client Inconnu'.
C24_ResolutionNeverFails ==
    last.op = "get_or_create_client" =>
        /\ last.outcome = "ok"
        /\ last.returned # <<>>
        /\ last.returned[1] \in DOMAIN clients
        /\ last.client # NULL
        /\ Val(last.client).id = last.returned[1]
        /\ clients[last.returned[1]].id = last.returned[1]
        /\ NothingGiven(last) =>
              /\ Val(last.client).nom = ClientInconnu
              /\ clients[last.returned[1]].nom = ClientInconnu

\* a blank name with an empty email and an empty telephone got a client named
\* 'Client Inconnu'
C24_Witness ==
    /\ last.op = "get_or_create_client"
    /\ last.nom_given = Some(<<" ">>)
    /\ last.email = Some(<<>>)
    /\ last.telephone = Some(<<>>)
    /\ last.inserted
    /\ clients[last.returned[1]].nom = ClientInconnu

(***************************************************************************)
(* C23, C30: what extract_from_email does to the extractor's draft         *)
(* (SpecExtract)                                                           *)
(***************************************************************************)
\* the classifier's answer asks for a history lookup
ReorderAsked ==
    /\ extraction.reorder_info.is_reorder
    /\ TruthyStr(extraction.reorder_info.client_name)

\* C23: when the classifier's result has is_reorder false or no client name,
\* or when no last order was found, extract_from_email returns the
\* extractor's draft as it is: same customer name, no field filled, no
\* history mark, same confidence.
C23_DraftUnchangedWithoutReorder ==
    (/\ extraction.stage \in {"extracted", "done"}
     /\ extraction.reorder_info.outcome = "ok"
     /\ (~ReorderAsked \/ extraction.last_order = NULL)) =>
        extraction.draft = extraction.extracted

\* a reorder was asked for a named client, no last order was found, and the
\* extractor's draft with its own customer name came back
C23_Witness ==
    /\ extraction.stage = "extracted"
    /\ ReorderAsked
    /\ extraction.last_order = NULL
    /\ extraction.extracted # NULL
    /\ Val(extraction.extracted).entreprise_cliente = NULL
    /\ extraction.draft = extraction.extracted

\* C30: a draft the extractor marked est_bon_commande false is still marked
\* false after extract_from_email, with or without a last order, and is not
\* stored.
C30_ValidityFlagUnchanged ==
    (/\ extraction.stage \in {"extracted", "done"}
     /\ extraction.extracted # NULL
     /\ Val(extraction.extracted).est_bon_commande = Some(FALSE)) =>
        /\ extraction.draft # NULL => Val(extraction.draft).est_bon_commande = Some(FALSE)
        /\ extraction.result # "stored"

(***************************************************************************)
(* suggest_article_code_from_description (article_codes.py 144-191) and    *)
(* auto_generate_article_code (data_extractor.py 57-85)                    *)
(***************************************************************************)
\* the index of the first character at or after i that is not a space: \s*
RECURSIVE SkipSpaces(_, _)
SkipSpaces(s, i) == IF i <= Len(s) /\ s[i] = " " THEN SkipSpaces(s, i + 1) ELSE i

\* the index of the last digit of the run of digits that starts at i: (\d+)
RECURSIVE RunEnd(_, _)
RunEnd(s, i) == IF i < Len(s) /\ IsDigit(s[i + 1]) THEN RunEnd(s, i + 1) ELSE i

Least(S) == CHOOSE i \in S : \A j \in S : i <= j

\* int(match.group(1)) of the leftmost match, the group starting at an index
\* of starts; None when the pattern matches nowhere
Group(s, starts) ==
    IF starts = {} THEN NULL
    ELSE Some(IntOf(SubSeq(s, Least(starts), RunEnd(s, Least(starts)))))

\* r"(\d+)\s*g(?:\/m2|ram|r)?" and r"(\d+)\s*gr": digits, spaces, g
DigitsBeforeG(s) ==
    { i \in DOMAIN s :
        /\ IsDigit(s[i])
        /\ LET j == SkipSpaces(s, RunEnd(s, i) + 1) IN j <= Len(s) /\ s[j] = "g" }

\* \s*[\:\=]?\s*(\d+) matched from index k: the index the digits start at, 0
\* when there is no match
NumberFrom(s, k) ==
    LET k1 == SkipSpaces(s, k)
        k2 == IF k1 <= Len(s) /\ s[k1] \in {":", "="} THEN k1 + 1 ELSE k1
        k3 == SkipSpaces(s, k2)
    IN IF k3 <= Len(s) /\ IsDigit(s[k3]) THEN k3 ELSE 0

\* word\s*[\:\=]?\s*(\d+), the word followed by the optional letter when
\* optional is not empty: the digits' start of the leftmost match
NumberAfterWord(s, word, optional) ==
    LET at == { i \in DOMAIN s :
                  /\ i + Len(word) - 1 <= Len(s)
                  /\ SubSeq(s, i, i + Len(word) - 1) = word
                  /\ NumberFrom(s, IF optional # <<>> /\ i + Len(word) <= Len(s)
                                      /\ s[i + Len(word)] = optional[1]
                                   THEN i + Len(word) + 1 ELSE i + Len(word)) # 0 }
    IN IF at = {} THEN {}
       ELSE LET i == Least(at) IN
            { NumberFrom(s, IF optional # <<>> /\ i + Len(word) <= Len(s)
                               /\ s[i + Len(word)] = optional[1]
                            THEN i + Len(word) + 1 ELSE i + Len(word)) }

GRAMMAGE == <<"g","r","a","m","m","a","g","e">>

LAIZ == <<"l","a","i","z">>

LARGEUR == <<"l","a","r","g","e","u","r">>

\* lines 167-177: grammage_patterns in order
DetectGrammage(text) ==
    IF DigitsBeforeG(text) # {} THEN Group(text, DigitsBeforeG(text))
    ELSE Group(text, NumberAfterWord(text, GRAMMAGE, <<>>))

\* r"l(\d+)"
DigitsAfterL(s) == { i \in DOMAIN s : i > 1 /\ IsDigit(s[i]) /\ s[i - 1] = "l" }

\* lines 180-190: laize_patterns in order
DetectLaize(text) ==
    IF NumberAfterWord(text, LAIZ, <<"e">>) # {}
    THEN Group(text, NumberAfterWord(text, LAIZ, <<"e">>))
    ELSE IF DigitsAfterL(text) # {} THEN Group(text, DigitsAfterL(text))
    ELSE Group(text, NumberAfterWord(text, LARGEUR, <<>>))

\* for key in table.keys(): if key in text: found = key; break
RECURSIVE FirstKey(_, _)
FirstKey(table, text) ==
    IF table = <<>> THEN NULL
    ELSE IF Contains(text, Head(table)[1]) THEN Some(Head(table)[1])
    ELSE FirstKey(Tail(table), text)

\* lines 160-164
DetectPaperType(text) == FirstKey(PAPER_TYPES, text)

\* lines 193-197
DetectSupplier(text) == FirstKey(SUPPLIERS, text)

\* article_codes.py 144-199
suggest_article_code_from_description(description) ==
    IF ~TruthyStr(description) THEN NULL
    ELSE LET text == PyLower(Val(description)) IN
         Some(generate_article_code(DetectPaperType(text), DetectGrammage(text),
                                    DetectLaize(text), DetectSupplier(text)))

\* data_extractor.py 71 and 81: len(code) > 2
PrefixLength == 2

\* data_extractor.py 57-85
auto_generate_article_code(d) ==
    IF TruthyStr(d.code_article) THEN d.code_article
    ELSE LET description == Val(OrStr(d.nature_produit, Some(<<>>))) \o <<" ">>
                            \o Val(OrStr(d.type_papier, Some(<<>>)))
             suggested == suggest_article_code_from_description(Some(description))
             code == generate_article_code(d.type_papier, d.grammage, d.laize, NULL)
         IN IF TruthyStr(suggested) /\ Len(Val(suggested)) > PrefixLength THEN suggested
            ELSE IF code # <<>> /\ Len(code) > PrefixLength THEN Some(code)
            ELSE NULL

(***************************************************************************)
(* SpecSuggest: suggest_article_code_from_description over descriptions    *)
(***************************************************************************)
Text100g == <<"1","0","0","g">>

Text70g == <<"7","0"," ","g">>

TextGrammage90 == <<"G","r","a","m","m","a","g","e",":"," ","9","0">>

Text0g == <<"0","g">>

TextLaize28 == <<"l","a","i","z","e"," ","2","8">>

TextL30 == <<"L","3","0">>

TextLargeur25 == <<"l","a","r","g","e","u","r","=","2","5">>

SAC == <<"s","a","c">>

\* a description names a paper, a grammage, a laize and a supplier, each in
\* one of several wordings or not at all; or it is absent or empty
Descriptions ==
    {NULL, Some(<<>>)} \cup
    { Some(SAC \o <<" ">> \o t \o <<" ">> \o g \o <<" ">> \o l \o <<" ">> \o f) :
        t \in {<<>>, KRAFTBLANCHI, KRAFTECRUUPPER, KraftEcruName, PAPIER},
        g \in {<<>>, Text100g, Text70g, TextGrammage90, Text0g},
        l \in {<<>>, TextLaize28, TextL30, TextLargeur25},
        f \in {<<>>, MondiName, DEFAULT} }

InitSuggest ==
    /\ clients = <<>>
    /\ commandes = <<>>
    /\ last = NoCall
    /\ prev = NoCall
    /\ procs = NoProcs
    /\ extraction = NoExtraction
    /\ codec \in { [stage |-> "description", description |-> d, suggested |-> NULL] :
                     d \in Descriptions }

suggest_from_text ==
    /\ codec.stage = "description"
    /\ codec' = [codec EXCEPT
                    !.stage = "suggested",
                    !.suggested = suggest_article_code_from_description(codec.description)]
    /\ UNCHANGED <<clients, commandes, last, prev, procs, extraction>>

NextSuggest == suggest_from_text

SpecSuggest == InitSuggest /\ [][NextSuggest]_vars

\* no paper type, grammage, laize or supplier is found in the description
NothingFound(description) ==
    LET text == IF description = NULL THEN <<>> ELSE PyLower(Val(description)) IN
    /\ DetectPaperType(text) = NULL
    /\ DetectGrammage(text) = NULL
    /\ DetectLaize(text) = NULL
    /\ DetectSupplier(text) = NULL

\* C25: for every description in which no paper type, grammage, laize or
\* supplier is found, the empty description among them,
\* suggest_article_code_from_description returns generate_article_code of four
\* absent attributes, 'KE80'.
C25_DefaultWhenNothingFound ==
    (codec.stage = "suggested" /\ NothingFound(codec.description)) =>
        codec.suggested = Some(generate_article_code(NULL, NULL, NULL, NULL))

(***************************************************************************)
(* SpecResolve: auto_generate_article_code over drafts                     *)
(***************************************************************************)
KB100 == <<"K","B","1","0","0">>

TextSacComplet == SAC \o <<" ">> \o KRAFTBLANCHI \o <<" ">> \o Text100g \o <<" ">> \o TextLaize28

ResolveDrafts ==
    { [code_article |-> c, nature_produit |-> n, type_papier |-> t,
       grammage |-> g, laize |-> l] :
        c \in {NULL, Some(<<>>), Some(KB100)},
        n \in {NULL, Some(SAC), Some(TextSacComplet)},
        t \in {NULL, Some(KRAFTBLANCHI), Some(PAPIER)},
        g \in {NULL, Some(0), Some(100)},
        l \in {NULL, Some(28)} }

InitResolve ==
    /\ clients = <<>>
    /\ commandes = <<>>
    /\ last = NoCall
    /\ prev = NoCall
    /\ procs = NoProcs
    /\ extraction = NoExtraction
    /\ codec \in { [stage |-> "draft", draft |-> d, code |-> NULL] : d \in ResolveDrafts }

resolve_code ==
    /\ codec.stage = "draft"
    /\ codec' = [codec EXCEPT !.stage = "resolved",
                              !.code = auto_generate_article_code(codec.draft)]
    /\ UNCHANGED <<clients, commandes, last, prev, procs, extraction>>

NextResolve == resolve_code

SpecResolve == InitResolve /\ [][NextResolve]_vars

\* the text the suggestion reads names no attribute
NoTextAttribute(d) ==
    NothingFound(Some(Val(OrStr(d.nature_produit, Some(<<>>))) \o <<" ">>
                      \o Val(OrStr(d.type_papier, Some(<<>>)))))

StructuredField(d) ==
    TruthyStr(d.type_papier) \/ TruthyNum(d.grammage) \/ TruthyNum(d.laize)

\* C21: for a draft without a code whose text names no attribute, the code
\* resolved is generate_article_code of the draft's type_papier, grammage and
\* laize when one of them is present, and there is no code when none is.
C21_ResolvedFromStructuredFields ==
    (codec.stage = "resolved" /\ ~TruthyStr(codec.draft.code_article)
       /\ NoTextAttribute(codec.draft)) =>
        IF StructuredField(codec.draft)
        THEN codec.code = Some(generate_article_code(codec.draft.type_papier,
                                   codec.draft.grammage, codec.draft.laize, NULL))
        ELSE codec.code = NULL

(***************************************************************************)
(* SpecHistory: get_client_last_order (data_extractor.py 190-230) and the  *)
(* reorder branch of extract_from_email over stored clients and orders     *)
(***************************************************************************)
\* nom LIKE '%name%': SQLite's LIKE folds the ASCII letters
Like(nom, name) == Contains(SqlLower(nom), SqlLower(name))

\* ORDER BY validated_at DESC, created_at DESC LIMIT 1 over a set of order
\* ids: a null validated_at sorts last, and a later INSERT has the later
\* created_at
FirstByValidatedAt(cmds, rows) ==
    LET at(i) == IF cmds[i].validated_at = NULL THEN 0 ELSE Val(cmds[i].validated_at)
    IN CHOOSE i \in rows : \A j \in rows : at(j) < at(i) \/ (at(j) = at(i) /\ j <= i)

\* ORDER BY created_at DESC LIMIT 1
FirstByCreatedAt(rows) == CHOOSE i \in rows : \A j \in rows : j <= i

\* the rows of commandes whose client's nom is LIKE the pattern
OrdersLike(cls, cmds, name) ==
    { i \in DOMAIN cmds :
        /\ cmds[i].client_id \in DOMAIN cls
        /\ Like(cls[cmds[i].client_id].nom, name) }

\* lines 190-230.  order is the id of the row returned, 0 for None.
GetClientLastOrder(cls, cmds, client_name) ==
    LET matched_name == FindMatchingClient(cls, Some(client_name))
        name == IF TruthyStr(matched_name) THEN Val(matched_name) ELSE client_name
        rows == OrdersLike(cls, cmds, name)
        validated == { i \in rows : cmds[i].statut = Validee }
    IN [matched_name |-> matched_name,
        order |-> IF validated # {} THEN FirstByValidatedAt(cmds, validated)
                  ELSE IF rows # {} THEN FirstByCreatedAt(rows)
                  ELSE 0]

\* the call recorded: the name given, the name find_matching_client gave and
\* the id of the order returned
HistoryCall(op, client_name, g) ==
    [NoCall EXCEPT !.op = op, !.nom_given = Some(client_name), !.nom = g.matched_name,
                   !.returned = IF g.order = 0 THEN <<>> ELSE <<g.order>>,
                   !.outcome = "ok"]

\* the lookup registering a name it does not find
get_client_last_order_creating(client_name) ==
    /\ last' = HistoryCall("get_client_last_order", client_name,
                           GetClientLastOrder(clients, commandes, client_name))
    /\ prev' = NoCall
    /\ clients' = IF FindMatchingClient(clients, Some(client_name)) = NULL
                  THEN GetOrCreateClient(clients, Some(client_name), NULL, NULL).cls
                  ELSE clients
    /\ UNCHANGED <<commandes, procs, codec, extraction>>

get_client_last_order(client_name) ==
    /\ last' = HistoryCall("get_client_last_order", client_name,
                           GetClientLastOrder(clients, commandes, client_name))
    /\ prev' = NoCall
    /\ UNCHANGED <<clients, commandes, procs, codec, extraction>>

\* the row of the SELECT as fill_from_history reads it, its columns set
LastOrderOf(cls, cmds, i) ==
    Some(LastOrderRow([f \in FillFields |-> "value"], cmds[i].id, cmds[i].numero_commande,
                      Some(cls[cmds[i].client_id].nom)))

\* lines 285-320 with the database connected: the classifier answers c, the
\* extractor answers x to every call
reorder_from_history(c, x) ==
    LET info == DetectReorderIntent(c)
        asked == info.is_reorder /\ TruthyStr(info.client_name)
        g == IF asked THEN GetClientLastOrder(clients, commandes, Val(info.client_name))
             ELSE [matched_name |-> NULL, order |-> 0]
        h == IF g.order # 0 THEN LastOrderOf(clients, commandes, g.order) ELSE NULL
        r == ExtractFromEmail(info, x, x, h)
    IN /\ extraction' = [Idle(0) EXCEPT
                            !.stage = "extracted", !.classifier = c.kind,
                            !.reorder_info = info,
                            !.extracted = IF x.kind = "object" THEN Some(x.draft) ELSE NULL,
                            !.last_order = h, !.draft = r.draft, !.outcome = r.outcome]
       /\ last' = IF asked THEN HistoryCall("extract_from_email", Val(info.client_name), g)
                  ELSE [NoCall EXCEPT !.op = "extract_from_email", !.outcome = "ok"]
       /\ prev' = NoCall
       /\ UNCHANGED <<clients, commandes, procs, codec>>

\* orders of two messages for two clients, the name of one inside the other's
HistoryDrafts ==
    { Draft(NULL, Some(e), Some(n), NULL, NULL, NULL, NULL) :
        e \in {E1, E2}, n \in {Atlas, CafeAtlas} }

\* a stored name in lower case, and a part of it that is no word of a name
HistoryNames == {<<"a","t","l","a","s">>, <<"t","l","a">>}

HistoryClassifier ==
    {ClassifierOutcome("answer", FALSE, NULL)}
    \cup { ClassifierOutcome("answer", TRUE, Some(n)) : n \in HistoryNames }

HistoryExtractor ==
    ExtractorOutcome("object",
                     ExtractedDraft([f \in FillFields |-> "none"], Some(50), Some(TRUE), NULL))

NextHistory ==
    \/ \E d \in HistoryDrafts : store_order(d)
    \/ \E id \in OrderIds : update_order_status(id, Validee, Some(Commercial))
    \/ \E n \in HistoryNames : find_matching_client(Some(n))
    \/ \E n \in HistoryNames : get_client_last_order(n)
    \/ \E c \in HistoryClassifier : reorder_from_history(c, HistoryExtractor)

SpecHistory == Init /\ [][NextHistory]_vars

\* the clients find_matching_client named, and their orders
MatchedIdentity == { c \in DOMAIN clients : Some(clients[c].nom) = last.nom }

OrdersOfMatched == { i \in DOMAIN commandes : commandes[i].client_id \in MatchedIdentity }

HistoryLookup == last.op \in {"get_client_last_order", "extract_from_email"} /\ last.nom_given # NULL

\* C22: when find_matching_client names a client, the order
\* get_client_last_order returns is the most recently validated one of that
\* client's orders when the client has a validated order, and the client's
\* most recently created order when it has orders but none validated.
C22_MostRecentlyValidated ==
    (HistoryLookup /\ last.nom # NULL /\ OrdersOfMatched # {}) =>
        LET validated == { i \in OrdersOfMatched : commandes[i].statut = Validee } IN
        IF validated # {}
        THEN last.returned = <<FirstByValidatedAt(commandes, validated)>>
        ELSE last.returned = <<FirstByCreatedAt(OrdersOfMatched)>>

\* C29: the order get_client_last_order returns belongs to the client
\* find_matching_client named, and no order is returned when
\* find_matching_client named none.
C29_HistoryOfMatchedIdentity ==
    HistoryLookup =>
        IF last.nom = NULL THEN last.returned = <<>>
        ELSE last.returned # <<>> => last.returned[1] \in OrdersOfMatched

\* C26: find_matching_client and get_client_last_order leave the client
\* rows and the order rows as they were, and so does extract_from_email with
\* its reorder branch.
C26_LookupsChangeNothing ==
    [][ last'.op \in {"find_matching_client", "get_client_last_order", "extract_from_email"}
          => clients' = clients /\ commandes' = commandes ]_vars

\* a reorder was inferred from a stored order of a stored client
C26_Witness ==
    /\ last.op = "extract_from_email"
    /\ last.returned # <<>>
    /\ Len(clients) = 2
    /\ extraction.draft # NULL
    /\ Val(extraction.draft).is_reorder = Some(TRUE)

====
